---------------------------- MODULE Spec2Model ----------------------------
(***************************************************************************)
(* Model of the DaniBot motor controller scripts.                          *)
(*                                                                         *)
(* Spec    : src/canProgram.py, the joystick teleoperation loop with the   *)
(*           enable/disable handshakes over the USB-CAN serial adapter.    *)
(* SpecCP  : src/CanProgram.py, the earlier velocity-only variant.         *)
(*                                                                         *)
(* One action is one statement group around one serial exchange, so that   *)
(* every intermediate state of a handshake, every frame written and every  *)
(* point where an exception can arrive is a state of the model.            *)
(***************************************************************************)
EXTENDS Integers, Sequences, FiniteSets, TLC

(***************************************************************************)
(* Bounds of the model (not program constants).                            *)
(***************************************************************************)
\* Stick resolution: an axis reads a/AxisUnit for a in -AxisUnit..AxisUnit.
AxisUnit == 1

(***************************************************************************)
(* Parameters of the specification that no source file sets.               *)
(***************************************************************************)
\* Watchdog timeout (spec.md 4.7), in loop iterations without a fresh sample.
WatchdogTicks == 2
\* Loop iterations the stop may take once the watchdog is due (spec.md 8).
StopTicks == 1

(***************************************************************************)
(* Program constants of src/canProgram.py.                                 *)
(***************************************************************************)
WORK_CURRENT_MA == 1600
HOLDING_PERCENT == 50
MOTOR_LEFT == <<3, 4>>
MOTOR_RIGHT == <<1, 2>>
ALL_MOTORS == MOTOR_LEFT \o MOTOR_RIGHT
MAX_RPM == 500
ACC == 240
\* DEADZONE = 0.001 as the fraction DEADZONE_NUM / DEADZONE_DEN
DEADZONE_NUM == 1
DEADZONE_DEN == 1000
\* SEND_PERIOD = 0.05 s and the loop's time.sleep(0.005), in milliseconds
SEND_PERIOD_MS == 50
LOOP_SLEEP_MS == 5
\* SLOW_FACTOR = 0.4 and FAST_FACTOR = 2.0 and the plain factor 1.0, in tenths
SLOW_FACTOR_10 == 4
FAST_FACTOR_10 == 20
UNIT_FACTOR_10 == 10
STATE_DISABLED == 0
STATE_ENABLING == 1
STATE_ENABLED == 2
STATE_DISABLING == 3
\* range(2) of the zero-speed rounds, range(4) of the disable retries,
\* range(2) of the pre-disable retries, range(4) of the enable retries
STOP_ROUNDS == 2
DISABLE_TRIES == 4
PRE_DISABLE_TRIES == 2
ENABLE_TRIES == 4

Motors == {ALL_MOTORS[i] : i \in 1..Len(ALL_MOTORS)}
NumMotors == Len(ALL_MOTORS)

(***************************************************************************)
(* Pure helpers.                                                           *)
(***************************************************************************)
Abs(x) == IF x < 0 THEN -x ELSE x

Min(a, b) == IF a < b THEN a ELSE b

Max(a, b) == IF a > b THEN a ELSE b

clamp(x, lo, hi) == Max(lo, Min(hi, x))

RECURSIVE SumSeq(_)
SumSeq(s) == IF s = <<>> THEN 0 ELSE Head(s) + SumSeq(Tail(s))

\* build_frame: AA, dlc, id_lo, id_hi, data..., crc, 55
build_frame(dlc, can_id, data) ==
    LET crc == (can_id + SumSeq(data)) % 256
    IN  <<170, dlc % 256, can_id % 256, (can_id \div 256) % 256>>
            \o data \o <<crc, 85>>

\* int(): truncation toward zero of the non-negative quotient num/den
IntTrunc(num, den) == num \div den

\* Mutant: the sign of rpm is dropped, the direction bit is never set.
send_speed_unsigned(can_id, num, den) ==
    LET mag   == IF num < 0 THEN -num ELSE num
        speed == clamp(IntTrunc(mag, den), 0, 3000) % 4096
    IN  build_frame(197, can_id,
                    <<246, (speed \div 256) % 16, speed % 256, ACC>>)

\* send_speed(ser, can_id, rpm) with rpm = num/den (den > 0): the frame written
send_speed(can_id, num, den) ==
    LET direction == IF num < 0 THEN 1 ELSE 0
        mag   == IF num < 0 THEN -num ELSE num
        rpm   == clamp(IntTrunc(mag, den), 0, 3000)
        speed == rpm % 4096
        b2    == direction * 128 + ((speed \div 256) % 16)
        b3    == speed % 256
    IN  build_frame(197, can_id, <<246, b2, b3, ACC>>)

\* send_enable(ser, can_id, enable): the frame written
send_enable(can_id, enable) ==
    build_frame(194, can_id, <<243, IF enable THEN 1 ELSE 0>>)

\* read_enable_state: the query frame written (command 0x3A)
enable_query(can_id) == build_frame(193, can_id, <<58>>)

\* set_work_current: the frame written
set_work_current(can_id, ma) ==
    LET m == clamp(ma, 0, 3000)
    IN  build_frame(195, can_id, <<131, m % 256, (m \div 256) % 256>>)

\* set_holding_current: the frame written (percent is one of 10,20,...,90)
set_holding_current(can_id, percent) ==
    build_frame(194, can_id, <<155, (percent \div 10) - 1>>)

(***************************************************************************)
(* Reading frames back off the wire (observers used by the properties).    *)
(***************************************************************************)
FrameId(f) == f[3] + 256 * f[4]

FrameCmd(f) == IF Len(f) >= 5 THEN f[5] ELSE -1

IsSpeedFrame(f) == FrameCmd(f) = 246

SpeedOf(f) == (f[6] % 16) * 256 + f[7]

IsEnableFrame(f, on) == FrameCmd(f) = 243 /\ f[6] = (IF on THEN 1 ELSE 0)

IsHoldCurrentFrame(f) == FrameCmd(f) = 155

\* Bookkeeping of what went over the wire, read off the frames themselves.
ZeroSeen(cnt, f) ==
    IF IsSpeedFrame(f) /\ SpeedOf(f) = 0
    THEN [cnt EXCEPT ![FrameId(f)] = @ + 1] ELSE cnt

FalseSeen(set, f) == IF IsEnableFrame(f, FALSE) THEN set \cup {FrameId(f)} ELSE set

WorkCurrentSeen(set, f) ==
    IF FrameCmd(f) = 131 THEN set \cup {FrameId(f)} ELSE set

HoldCurrentSeen(set, f) ==
    IF IsHoldCurrentFrame(f) THEN set \cup {FrameId(f)} ELSE set

(***************************************************************************)
(* Differential mixer of the main loop.  Stick values are kept as integers *)
(* over the common denominator AxisDen, rpm values as num / RpmDen.        *)
(***************************************************************************)
AxisDen == 2 * AxisUnit

RpmDen == AxisDen * 10

\* apply_deadzone(x, DEADZONE) for x given over AxisDen
apply_deadzone(x) ==
    IF Abs(x) * DEADZONE_DEN < DEADZONE_NUM * AxisDen THEN 0 ELSE x

\* v = apply_deadzone(-joy.get_axis(1), DEADZONE)
Forward(j) == apply_deadzone(-(2 * j.a1))

\* w = apply_deadzone(joy.get_axis(3) / 2, DEADZONE)
Turn(j) == apply_deadzone(j.a3)

Factor10(j) ==
    IF j.l1 = 1 THEN SLOW_FACTOR_10
    ELSE IF j.r1 = 1 THEN FAST_FACTOR_10 ELSE UNIT_FACTOR_10

left_rpm(j) ==
    (-clamp(Forward(j) + Turn(j), -AxisDen, AxisDen)) * MAX_RPM * Factor10(j)

right_rpm(j) ==
    clamp(Forward(j) - Turn(j), -AxisDen, AxisDen) * MAX_RPM * Factor10(j)

(***************************************************************************)
(* read_enable_state: what the port may hand back within the read window,  *)
(* and the scan of it for 0x3A followed by 0 or 1.                         *)
(***************************************************************************)
RawReplies(can_id) ==
    { <<>>,
      build_frame(195, can_id, <<58, 1>>),
      build_frame(195, can_id, <<58, 0>>),
      build_frame(195, can_id, <<58, 2>>),
      <<170, 58>> }

RECURSIVE ScanEnable(_, _)
ScanEnable(raw, i) ==
    IF i > Len(raw) - 1 THEN "None"
    ELSE IF raw[i] = 58 /\ raw[i + 1] \in {0, 1}
         THEN (IF raw[i + 1] = 1 THEN "True" ELSE "False")
         ELSE ScanEnable(raw, i + 1)

read_enable_state(raw) == ScanEnable(raw, 1)

(***************************************************************************)
(* State.                                                                  *)
(***************************************************************************)
VARIABLES
    system_state,   \* canProgram.py: STATE_*
    prev_start,     \* START button value of the previous iteration
    elapsed,        \* now - last_send, in ms, saturated at SEND_PERIOD_MS
    joy,            \* pygame joystick: last sampled axes and buttons
    stale,          \* iterations in ENABLED since the last fresh sample
    pc,             \* position of the script
    caller,         \* who called disable_all: "main" or "handler"
    mi,             \* index of the running for-loop over motors
    tryN,           \* iteration number of the running retry loop
    rnd,            \* iteration number of the zero-speed round loop
    st,             \* result of the last read_enable_state
    tx,             \* frame written to the serial port by the last step
    ser_open,       \* the serial port is open
    zeroCnt,        \* zero-speed frames per motor in the running stop sequence
    falseSent,      \* motors sent Enable(false) in the running stop sequence
    wcSent,         \* motors sent WorkingCurrent in the running enable sequence
    hcSent,         \* motors sent HoldingCurrent in the running enable sequence
    sent,           \* frames written so far by the running retry loop
    enFailed        \* a motor's enable retries ran out without confirmation

\* State of the other programs of the repository (declared here, used by
\* their own specifications further down).
VARIABLES
    wire,           \* PIDconf.py: what was sent to the parser's port, in order
    buf,            \* UsbCanParser.buf
    frames,         \* the frames next_frame has returned so far, in order
    ppc,            \* position of the caller of next_frame
    ret,            \* value of the last return of next_frame, or of the
                    \* function called last (<<>> is None)
    inq,            \* bytes received by the port and not yet read from it
    now,            \* time.time() - t0 of the running wait, in ms
    cmd,            \* the command function called last, with its arguments
    desired_speed_rpm,  \* configuraciónMotores.py: the shared setpoint
    speed_lock,     \* holder of speed_lock, or "free"
    status_lock,    \* holder of status_lock, or "free"
    status,         \* link_ok, last_error, last_tx, last_rx, last_pos_counts
    hpc,            \* position of each HTTP handler thread
    hreq,           \* rpm of the /api/speed request a handler is serving
    mpc,            \* position of the motor_loop thread
    loop_rpm,       \* motor_loop: rpm
    last_sent_speed,    \* motor_loop: last_sent_speed (<<>> is None)
    link_ser,       \* Link.ser is an open port
    txq,            \* bytes of s.write(tx) not yet on the line
    line,           \* bytes on the line since the last complete frame
    rx,             \* motor_loop: the reply read by txrx
    port_users      \* threads that have called a method of the port

canvars == <<system_state, prev_start, elapsed, joy, stale, pc, caller, mi,
             tryN, rnd, st, tx, ser_open, zeroCnt, falseSent, wcSent, hcSent,
             sent, enFailed>>

parservars == <<wire, buf, frames, ppc, ret, inq, now>>

webvars == <<desired_speed_rpm, speed_lock, status_lock, status, hpc, hreq,
             mpc, loop_rpm, last_sent_speed, link_ser, txq, line, rx, port_users>>

\* What canProgram.py and CanProgram.py never touch.
othervars == <<parservars, cmd, webvars>>

vars == <<canvars, othervars>>

\* configuraciónMotores.py is not running.
WebIdle ==
    /\ desired_speed_rpm = 0
    /\ speed_lock = "free"
    /\ status_lock = "free"
    /\ status = [link_ok |-> FALSE, last_error |-> "None", last_tx |-> <<>>,
                 last_rx |-> <<>>, last_pos_counts |-> <<>>]
    /\ hpc = <<>>
    /\ hreq = <<>>
    /\ mpc = "off"
    /\ loop_rpm = 0
    /\ last_sent_speed = <<>>
    /\ link_ser = FALSE
    /\ txq = <<>>
    /\ line = <<>>
    /\ rx = <<>>
    /\ port_users = {}

\* The other programs are not running.
OthersIdle ==
    /\ wire = <<>>
    /\ buf = <<>>
    /\ frames = <<>>
    /\ ppc = "off"
    /\ ret = <<>>
    /\ inq = <<>>
    /\ now = 0
    /\ cmd = <<>>
    /\ WebIdle

loopvars == <<mi, tryN, rnd, st>>

\* What a command function called on its own leaves alone of the state of
\* canProgram.py (all but tx and st).
idlevars == <<system_state, prev_start, elapsed, joy, stale, pc, caller, mi,
              tryN, rnd, ser_open, zeroCnt, falseSent, wcSent, hcSent, sent,
              enFailed>>

ghost == <<zeroCnt, falseSent, wcSent, hcSent, sent, enFailed>>

AxisRange == (-AxisUnit)..AxisUnit

JoyStates == [a1 : AxisRange, a3 : AxisRange, start : {0, 1},
              l1 : {0, 1}, r1 : {0, 1}]

JoyRest == [a1 |-> 0, a3 |-> 0, start |-> 0, l1 |-> 0, r1 |-> 0]

\* Mutant: the clock of the last send is not restarted, a send is due at once.
Advance_due(e, ms) == SEND_PERIOD_MS

\* time.sleep(ms) seen from last_send: now - last_send, capped at the period
Advance(e, ms) == Min(e + ms, SEND_PERIOD_MS)

NoCount == [m \in Motors |-> 0]

\* pygame.event.pump(): either events carry a new sample, or none is queued
\* and the joystick object keeps the sample it has.
PumpEvents(cur) ==
    [fresh : {TRUE}, j : JoyStates] \cup {[fresh |-> FALSE, j |-> cur]}

Init ==
    /\ OthersIdle
    /\ system_state = STATE_DISABLED
    /\ prev_start = 0
    /\ elapsed = SEND_PERIOD_MS
    /\ joy = JoyRest
    /\ stale = 0
    /\ pc = "loop"
    /\ caller = "main"
    /\ mi = 1
    /\ tryN = 1
    /\ rnd = 1
    /\ st = "None"
    /\ tx = <<>>
    /\ ser_open = TRUE
    /\ zeroCnt = NoCount
    /\ falseSent = {}
    /\ wcSent = {}
    /\ hcSent = {}
    /\ sent = 0
    /\ enFailed = FALSE

(***************************************************************************)
(* Loop conditions and guards of src/canProgram.py.                        *)
(***************************************************************************)
\* Mutant: any change of the button toggles, the release included.
RisingEdge_change(start, prev) == start # prev

\* Mutant: level-triggered toggle, prev_start ignored.
RisingEdge_level(start, prev) == start = 1

\* if start and not prev_start
RisingEdge(start, prev) == start = 1 /\ prev = 0

\* Mutant: the velocity send is not gated by the state.
MaySendSpeed_ungated(state) == TRUE

\* if system_state == STATE_ENABLED: the gate of the velocity send
MaySendSpeed(state) == state = STATE_ENABLED

\* Mutant: retry until the motor answers 'disabled', without a cap.
DisableLoopExit_uncapped(r, n) == r = "False"

\* disable_all: for _ in range(4) ... if st is False: break
DisableLoopExit(r, n) == r = "False" \/ n >= DISABLE_TRIES

\* enable_all: for _ in range(2) ... if st is False: break
PreDisableLoopExit(r, n) == r = "False" \/ n >= PRE_DISABLE_TRIES

\* Mutant: one attempt too many.
EnableLoopExit_offbyone(r, n) == r = "True" \/ n > ENABLE_TRIES

\* enable_all: for _ in range(4) ... if st is True: break
EnableLoopExit(r, n) == r = "True" \/ n >= ENABLE_TRIES

\* Mutant: a single zero-speed round.
StopRoundsDone_once(r) == r >= 1

\* disable_all: for _ in range(2) around the zero-speed sends
StopRoundsDone(r) == r >= STOP_ROUNDS

\* the state written after enable_all() returns
StateAfterEnable == STATE_ENABLED

\* the state written after disable_all() returns
StateAfterDisable == STATE_DISABLED

\* Mutant: the working current is not configured.
EnableStepAfter_noWorkCurrent(p) ==
    CASE p = "en_prequery" -> "en_hc"
      [] p = "en_wc" -> "en_hc"
      [] p = "en_hc" -> "en_enable"
      [] p = "en_enable" -> "en_query"

\* enable_all: the statement that follows each step for one motor
EnableStepAfter(p) ==
    CASE p = "en_prequery" -> "en_wc"
      [] p = "en_wc" -> "en_hc"
      [] p = "en_hc" -> "en_enable"
      [] p = "en_enable" -> "en_query"

\* percent not in (10, 20, ..., 90) raises ValueError
HoldingPercentValid(percent) == percent \in {10 * k : k \in 1..9}

\* Return of disable_all / enable_all: their locals (m, _, st) are gone.
LeaveSequence ==
    /\ mi' = 1
    /\ tryN' = 1
    /\ rnd' = 1
    /\ st' = "None"
    /\ sent' = 0

\* Entry of disable_all: the loops start over, nothing sent yet.
EnterDisable(who) ==
    /\ pc' = "dis_speed"
    /\ caller' = who
    /\ rnd' = 1
    /\ mi' = 1
    /\ tryN' = 1
    /\ zeroCnt' = NoCount
    /\ falseSent' = {}
    /\ sent' = 0

\* Entry of enable_all.
EnterEnable ==
    /\ pc' = "en_predis"
    /\ mi' = 1
    /\ tryN' = 1
    /\ wcSent' = {}
    /\ hcSent' = {}
    /\ sent' = 0
    /\ enFailed' = FALSE

(***************************************************************************)
(* Main loop of src/canProgram.py.                                         *)
(***************************************************************************)
\* pygame.event.pump(), start = joy.get_button(BTN_START) and the toggle.
\* With no event queued the joystick object keeps its last sample.
LoopTop ==
    /\ UNCHANGED othervars
    /\ pc = "loop"
    /\ \E ev \in PumpEvents(joy) :
         /\ joy' = ev.j
         /\ stale' = IF ev.fresh \/ system_state # STATE_ENABLED
                     THEN 0 ELSE Min(stale + 1, WatchdogTicks + StopTicks)
    /\ tx' = <<>>
    /\ IF RisingEdge(joy'.start, prev_start) /\ system_state = STATE_ENABLED
       THEN /\ system_state' = STATE_DISABLING
            /\ EnterDisable("main")
            /\ UNCHANGED <<prev_start, elapsed, st, ser_open, wcSent, hcSent,
                           enFailed>>
       ELSE IF RisingEdge(joy'.start, prev_start)
               /\ system_state = STATE_DISABLED
       THEN /\ system_state' = STATE_ENABLING
            /\ EnterEnable
            /\ UNCHANGED <<prev_start, elapsed, st, ser_open, caller, rnd,
                           zeroCnt, falseSent>>
       ELSE /\ prev_start' = joy'.start
            /\ pc' = "drive"
            /\ UNCHANGED <<system_state, elapsed, caller, loopvars, ser_open,
                           ghost>>

\* if system_state == STATE_ENABLED: ... if (now - last_send) >= SEND_PERIOD,
\* else straight to time.sleep(0.005)
Drive ==
    /\ UNCHANGED othervars
    /\ pc = "drive"
    /\ tx' = <<>>
    /\ IF MaySendSpeed(system_state) /\ elapsed >= SEND_PERIOD_MS
       THEN /\ pc' = "send"
            /\ mi' = 1
            /\ UNCHANGED elapsed
       ELSE /\ pc' = "loop"
            /\ elapsed' = Advance(elapsed, LOOP_SLEEP_MS)
            /\ UNCHANGED mi
    /\ UNCHANGED <<system_state, prev_start, joy, stale, caller, tryN, rnd,
                   st, ser_open, ghost>>

\* for m in MOTOR_LEFT: send_speed(ser, m, left_rpm); for m in MOTOR_RIGHT:
\* send_speed(ser, m, right_rpm); last_send = now; time.sleep(0.005)
SendSpeed ==
    /\ UNCHANGED othervars
    /\ pc = "send"
    /\ tx' = IF mi <= Len(MOTOR_LEFT)
             THEN send_speed(MOTOR_LEFT[mi], left_rpm(joy), RpmDen)
             ELSE send_speed(MOTOR_RIGHT[mi - Len(MOTOR_LEFT)],
                             right_rpm(joy), RpmDen)
    /\ IF mi < Len(MOTOR_LEFT) + Len(MOTOR_RIGHT)
       THEN /\ mi' = mi + 1
            /\ UNCHANGED <<pc, elapsed>>
       ELSE /\ pc' = "loop"
            /\ elapsed' = Advance(0, LOOP_SLEEP_MS)
            /\ mi' = 1
    /\ UNCHANGED <<system_state, prev_start, joy, stale, caller, tryN, rnd,
                   st, ser_open, ghost>>

(***************************************************************************)
(* disable_all(ser).                                                       *)
(***************************************************************************)
\* for _ in range(2): for m in ALL_MOTORS: send_speed(ser, m, 0); sleep(0.03)
DisSpeed ==
    /\ UNCHANGED othervars
    /\ pc = "dis_speed"
    /\ tx' = send_speed(ALL_MOTORS[mi], 0, 1)
    /\ zeroCnt' = ZeroSeen(zeroCnt, tx')
    /\ IF mi < NumMotors
       THEN /\ mi' = mi + 1
            /\ UNCHANGED <<pc, rnd, tryN, sent, elapsed>>
       ELSE /\ elapsed' = Advance(elapsed, 30)
            /\ mi' = 1
            /\ IF StopRoundsDone(rnd)
               THEN /\ pc' = "dis_enable"
                    /\ tryN' = 1
                    /\ sent' = 0
                    /\ UNCHANGED rnd
               ELSE /\ rnd' = rnd + 1
                    /\ UNCHANGED <<pc, tryN, sent>>
    /\ UNCHANGED <<system_state, prev_start, joy, stale, caller, st, ser_open,
                   falseSent, wcSent, hcSent, enFailed>>

\* send_enable(ser, m, False); time.sleep(0.03)
DisEnable ==
    /\ UNCHANGED othervars
    /\ pc = "dis_enable"
    /\ tx' = send_enable(ALL_MOTORS[mi], FALSE)
    /\ falseSent' = FalseSeen(falseSent, tx')
    /\ sent' = sent + 1
    /\ elapsed' = Advance(elapsed, 30)
    /\ pc' = "dis_query"
    /\ UNCHANGED <<system_state, prev_start, joy, stale, caller, loopvars,
                   ser_open, zeroCnt, wcSent, hcSent, enFailed>>

\* st = read_enable_state(ser, m); if st is False: break
DisQuery ==
    /\ UNCHANGED othervars
    /\ pc = "dis_query"
    /\ tx' = enable_query(ALL_MOTORS[mi])
    /\ elapsed' = Advance(elapsed, 50)
    /\ \E raw \in RawReplies(ALL_MOTORS[mi]) : st' = read_enable_state(raw)
    /\ IF DisableLoopExit(st', tryN)
       THEN /\ tryN' = 1
            /\ IF mi < NumMotors
               THEN mi' = mi + 1 /\ pc' = "dis_enable" /\ sent' = 0
               ELSE mi' = mi /\ pc' = "dis_ret" /\ sent' = sent
       ELSE /\ tryN' = tryN + 1
            /\ pc' = "dis_enable"
            /\ UNCHANGED <<mi, sent>>
    /\ UNCHANGED <<system_state, prev_start, joy, stale, caller, rnd, ser_open,
                   zeroCnt, falseSent, wcSent, hcSent, enFailed>>

\* Back in the caller: system_state = STATE_DISABLED, then prev_start = start
\* (main loop) or ser.close() (KeyboardInterrupt handler).
DisReturn ==
    /\ UNCHANGED othervars
    /\ pc = "dis_ret"
    /\ tx' = <<>>
    /\ system_state' = StateAfterDisable
    /\ IF caller = "main"
       THEN pc' = "drive" /\ prev_start' = joy.start
       ELSE pc' = "close" /\ UNCHANGED prev_start
    /\ LeaveSequence
    /\ UNCHANGED <<elapsed, joy, stale, caller, ser_open, zeroCnt, falseSent,
                   wcSent, hcSent, enFailed>>

\* ser.close(); pygame.quit()
Close ==
    /\ UNCHANGED othervars
    /\ pc = "close"
    /\ tx' = <<>>
    /\ ser_open' = FALSE
    /\ pc' = "exited"
    /\ UNCHANGED <<system_state, prev_start, elapsed, joy, stale, caller,
                   loopvars, ghost>>

(***************************************************************************)
(* enable_all(ser).                                                        *)
(***************************************************************************)
\* 0) send_enable(ser, m, False); time.sleep(0.03)
EnPreDisable ==
    /\ UNCHANGED othervars
    /\ pc = "en_predis"
    /\ tx' = send_enable(ALL_MOTORS[mi], FALSE)
    /\ sent' = sent + 1
    /\ elapsed' = Advance(elapsed, 30)
    /\ pc' = "en_prequery"
    /\ UNCHANGED <<system_state, prev_start, joy, stale, caller, loopvars,
                   ser_open, zeroCnt, falseSent, wcSent, hcSent, enFailed>>

\* 0) st = read_enable_state(ser, m); if st is False: break
EnPreQuery ==
    /\ UNCHANGED othervars
    /\ pc = "en_prequery"
    /\ tx' = enable_query(ALL_MOTORS[mi])
    /\ elapsed' = Advance(elapsed, 50)
    /\ \E raw \in RawReplies(ALL_MOTORS[mi]) : st' = read_enable_state(raw)
    /\ IF PreDisableLoopExit(st', tryN)
       THEN pc' = EnableStepAfter(pc) /\ tryN' = 1 /\ sent' = 0
       ELSE pc' = "en_predis" /\ tryN' = tryN + 1 /\ UNCHANGED sent
    /\ UNCHANGED <<system_state, prev_start, joy, stale, caller, mi, rnd,
                   ser_open, zeroCnt, falseSent, wcSent, hcSent, enFailed>>

\* 1) set_work_current(ser, m, WORK_CURRENT_MA); time.sleep(0.02)
EnWorkCurrent ==
    /\ UNCHANGED othervars
    /\ pc = "en_wc"
    /\ tx' = set_work_current(ALL_MOTORS[mi], WORK_CURRENT_MA)
    /\ wcSent' = WorkCurrentSeen(wcSent, tx')
    /\ elapsed' = Advance(elapsed, 70)
    /\ pc' = EnableStepAfter(pc)
    /\ UNCHANGED <<system_state, prev_start, joy, stale, caller, loopvars,
                   ser_open, zeroCnt, falseSent, hcSent, sent, enFailed>>

\* 2) set_holding_current(ser, m, HOLDING_PERCENT); time.sleep(0.02)
\* An invalid percent raises ValueError before anything is written.
EnHoldCurrent ==
    /\ UNCHANGED othervars
    /\ pc = "en_hc"
    /\ IF HoldingPercentValid(HOLDING_PERCENT)
       THEN /\ tx' = set_holding_current(ALL_MOTORS[mi], HOLDING_PERCENT)
            /\ hcSent' = HoldCurrentSeen(hcSent, tx')
            /\ elapsed' = Advance(elapsed, 70)
            /\ pc' = EnableStepAfter(pc)
       ELSE /\ tx' = <<>>
            /\ pc' = "crashed"
            /\ UNCHANGED <<hcSent, elapsed>>
    /\ UNCHANGED <<system_state, prev_start, joy, stale, caller, loopvars,
                   ser_open, zeroCnt, falseSent, wcSent, sent, enFailed>>

\* 3) send_enable(ser, m, True); time.sleep(0.04)
EnEnable ==
    /\ UNCHANGED othervars
    /\ pc = "en_enable"
    /\ tx' = send_enable(ALL_MOTORS[mi], TRUE)
    /\ sent' = sent + 1
    /\ elapsed' = Advance(elapsed, 40)
    /\ pc' = EnableStepAfter(pc)
    /\ UNCHANGED <<system_state, prev_start, joy, stale, caller, loopvars,
                   ser_open, zeroCnt, falseSent, wcSent, hcSent, enFailed>>

\* 3) st = read_enable_state(ser, m); if st is True: break
EnQuery ==
    /\ UNCHANGED othervars
    /\ pc = "en_query"
    /\ tx' = enable_query(ALL_MOTORS[mi])
    /\ elapsed' = Advance(elapsed, 50)
    /\ \E raw \in RawReplies(ALL_MOTORS[mi]) : st' = read_enable_state(raw)
    /\ IF EnableLoopExit(st', tryN)
       THEN /\ enFailed' = (enFailed \/ st' # "True")
            /\ tryN' = 1
            /\ IF mi < NumMotors
               THEN mi' = mi + 1 /\ pc' = "en_predis" /\ sent' = 0
               ELSE mi' = mi /\ pc' = "en_ret" /\ sent' = sent
       ELSE /\ tryN' = tryN + 1
            /\ pc' = "en_enable"
            /\ UNCHANGED <<mi, sent, enFailed>>
    /\ UNCHANGED <<system_state, prev_start, joy, stale, caller, rnd, ser_open,
                   zeroCnt, falseSent, wcSent, hcSent>>

\* Back in the main loop: system_state = STATE_ENABLED; prev_start = start
EnReturn ==
    /\ UNCHANGED othervars
    /\ pc = "en_ret"
    /\ tx' = <<>>
    /\ system_state' = StateAfterEnable
    /\ prev_start' = joy.start
    /\ pc' = "drive"
    /\ LeaveSequence
    /\ UNCHANGED <<elapsed, joy, stale, caller, ser_open, zeroCnt, falseSent,
                   wcSent, hcSent, enFailed>>

(***************************************************************************)
(* Exceptions.                                                             *)
(***************************************************************************)
\* Positions inside the try block: everything but the handler and the end.
InTry ==
    /\ pc \notin {"close", "exited", "crashed"}
    /\ ~(caller = "handler")

\* Positions whose next statement writes to or reads from the serial port.
DoesIO ==
    pc \in {"send", "dis_speed", "dis_enable", "dis_query", "en_predis",
            "en_prequery", "en_wc", "en_hc", "en_enable", "en_query"}

\* The main loop's variables that nothing reads once the loop is left (the
\* handler runs disable_all and closes; a dead interpreter reads nothing).
\* They are put back to their initial values there, so that the states of the
\* handler are not told apart by what the joystick last read.
ForgetLoop ==
    /\ prev_start' = 0
    /\ elapsed' = SEND_PERIOD_MS
    /\ joy' = JoyRest
    /\ stale' = 0

\* except KeyboardInterrupt: system_state = STATE_DISABLING; disable_all(ser)
\* The signal can arrive before any statement of the try block.
KeyboardInterrupt ==
    /\ UNCHANGED othervars
    /\ InTry
    /\ tx' = <<>>
    /\ system_state' = STATE_DISABLING
    /\ EnterDisable("handler")
    /\ ForgetLoop
    /\ UNCHANGED <<st, ser_open, wcSent, hcSent, enFailed>>

\* ser.write / ser.read raises serial.SerialException: no except clause of the
\* script catches it, the interpreter prints the traceback and exits.
\* system_state keeps the value it had; the port is not closed by the script.
SerialError ==
    /\ UNCHANGED othervars
    /\ DoesIO
    /\ tx' = <<>>
    /\ pc' = "crashed"
    /\ ForgetLoop
    /\ LeaveSequence
    /\ UNCHANGED <<system_state, caller, ser_open, zeroCnt, falseSent,
                   wcSent, hcSent, enFailed>>

Next ==
    \/ LoopTop
    \/ Drive
    \/ SendSpeed
    \/ DisSpeed
    \/ DisEnable
    \/ DisQuery
    \/ DisReturn
    \/ Close
    \/ EnPreDisable
    \/ EnPreQuery
    \/ EnWorkCurrent
    \/ EnHoldCurrent
    \/ EnEnable
    \/ EnQuery
    \/ EnReturn
    \/ KeyboardInterrupt
    \/ SerialError

Spec == Init /\ [][Next]_vars

(***************************************************************************)
(* src/CanProgram.py: the velocity-only variant.  It has no enable state   *)
(* machine: it mixes the sticks, sends F6 frames every SEND_PERIOD and, on *)
(* KeyboardInterrupt, sends one zero-speed frame per motor and closes.     *)
(* It runs on the same variables; system_state and the handshake variables *)
(* are not touched.  joy.a3 holds the turn axis (axis 2 in this script).   *)
(***************************************************************************)
CP_MAX_RPM == 300
CP_ACC == 200
\* DEADZONE = 0.08 as the fraction CP_DEADZONE_NUM / CP_DEADZONE_DEN
CP_DEADZONE_NUM == 8
CP_DEADZONE_DEN == 100

CpAxisDen == 4 * AxisUnit

\* send_speed of CanProgram.py: the frame written, rpm = num/den
cp_send_speed(can_id, num, den) ==
    LET dir_bit == IF num < 0 THEN 1 ELSE 0
        mag   == IF num < 0 THEN -num ELSE num
        rpm   == clamp(IntTrunc(mag, den), 0, 3000)
        speed == rpm % 4096
        byte2 == dir_bit * 128 + ((speed \div 256) % 16)
        byte3 == speed % 256
        data  == <<246, byte2, byte3, CP_ACC>>
        crc   == (can_id + SumSeq(data)) % 256
    IN  <<170, 197, can_id % 256, (can_id \div 256) % 256>>
            \o data \o <<crc, 85>>

\* if abs(axis) < DEADZONE: axis = 0.0, for an axis given over CpAxisDen
cp_deadzone(x) ==
    IF Abs(x) * CP_DEADZONE_DEN < CP_DEADZONE_NUM * CpAxisDen THEN 0 ELSE x

\* axis_y = -joy.get_axis(1)
cp_axis_y(j) == cp_deadzone(-(4 * j.a1))

\* axis_x = joy.get_axis(2) / 4
cp_axis_x(j) == cp_deadzone(j.a3)

cp_left_rpm(j) ==
    clamp(cp_axis_y(j) + cp_axis_x(j), -CpAxisDen, CpAxisDen) * CP_MAX_RPM

cp_right_rpm(j) ==
    clamp(cp_axis_y(j) - cp_axis_x(j), -CpAxisDen, CpAxisDen) * CP_MAX_RPM

\* The script reads the two axes only.
CpJoyStates == {j \in JoyStates : j.start = 0 /\ j.l1 = 0 /\ j.r1 = 0}

CpPumpEvents(cur) ==
    [fresh : {TRUE}, j : CpJoyStates] \cup {[fresh |-> FALSE, j |-> cur]}

CpInit ==
    /\ OthersIdle
    /\ system_state = STATE_DISABLED
    /\ prev_start = 0
    /\ elapsed = SEND_PERIOD_MS
    /\ joy = JoyRest
    /\ stale = 0
    /\ pc = "cp_loop"
    /\ caller = "main"
    /\ mi = 1
    /\ tryN = 1
    /\ rnd = 1
    /\ st = "None"
    /\ tx = <<>>
    /\ ser_open = TRUE
    /\ zeroCnt = NoCount
    /\ falseSent = {}
    /\ wcSent = {}
    /\ hcSent = {}
    /\ sent = 0
    /\ enFailed = FALSE

cpfixed == <<system_state, prev_start, stale, caller, tryN, rnd, st, wcSent,
             hcSent, sent, enFailed>>

\* pygame.event.pump(); the mixer; if now - last_send >= SEND_PERIOD, else
\* time.sleep(0.005)
CpLoopTop ==
    /\ UNCHANGED othervars
    /\ pc = "cp_loop"
    /\ \E ev \in CpPumpEvents(joy) : joy' = ev.j
    /\ tx' = <<>>
    /\ IF elapsed >= SEND_PERIOD_MS
       THEN pc' = "cp_send" /\ UNCHANGED elapsed
       ELSE pc' = "cp_loop" /\ elapsed' = Advance(elapsed, LOOP_SLEEP_MS)
    /\ UNCHANGED <<mi, ser_open, zeroCnt, falseSent>>
    /\ UNCHANGED cpfixed

\* for mid in MOTOR_LEFT: send_speed(ser, mid, left_rpm); for mid in
\* MOTOR_RIGHT: send_speed(ser, mid, right_rpm); last_send = now; sleep
CpSendSpeed ==
    /\ UNCHANGED othervars
    /\ pc = "cp_send"
    /\ tx' = IF mi <= Len(MOTOR_LEFT)
             THEN cp_send_speed(MOTOR_LEFT[mi], cp_left_rpm(joy), CpAxisDen)
             ELSE cp_send_speed(MOTOR_RIGHT[mi - Len(MOTOR_LEFT)],
                                cp_right_rpm(joy), CpAxisDen)
    /\ IF mi < Len(MOTOR_LEFT) + Len(MOTOR_RIGHT)
       THEN /\ mi' = mi + 1
            /\ UNCHANGED <<pc, elapsed>>
       ELSE /\ pc' = "cp_loop"
            /\ elapsed' = Advance(0, LOOP_SLEEP_MS)
            /\ mi' = 1
    /\ UNCHANGED <<joy, ser_open, zeroCnt, falseSent>>
    /\ UNCHANGED cpfixed

\* except KeyboardInterrupt: the stop loop starts
CpKeyboardInterrupt ==
    /\ UNCHANGED othervars
    /\ pc \in {"cp_loop", "cp_send"}
    /\ tx' = <<>>
    /\ pc' = "cp_stop"
    /\ mi' = 1
    /\ zeroCnt' = NoCount
    /\ falseSent' = {}
    /\ joy' = JoyRest
    /\ elapsed' = SEND_PERIOD_MS
    /\ UNCHANGED ser_open
    /\ UNCHANGED cpfixed

\* for mid in MOTOR_LEFT + MOTOR_RIGHT: send_speed(ser, mid, 0)
CpStop ==
    /\ UNCHANGED othervars
    /\ pc = "cp_stop"
    /\ tx' = cp_send_speed((MOTOR_LEFT \o MOTOR_RIGHT)[mi], 0, 1)
    /\ zeroCnt' = ZeroSeen(zeroCnt, tx')
    /\ falseSent' = FalseSeen(falseSent, tx')
    /\ IF mi < Len(MOTOR_LEFT) + Len(MOTOR_RIGHT)
       THEN mi' = mi + 1 /\ UNCHANGED pc
       ELSE mi' = 1 /\ pc' = "cp_close"
    /\ UNCHANGED <<joy, elapsed, ser_open>>
    /\ UNCHANGED cpfixed

\* ser.close(); pygame.quit()
CpClose ==
    /\ UNCHANGED othervars
    /\ pc = "cp_close"
    /\ tx' = <<>>
    /\ ser_open' = FALSE
    /\ pc' = "exited"
    /\ UNCHANGED <<joy, elapsed, mi, zeroCnt, falseSent>>
    /\ UNCHANGED cpfixed

CpNext ==
    \/ CpLoopTop
    \/ CpSendSpeed
    \/ CpKeyboardInterrupt
    \/ CpStop
    \/ CpClose

SpecCP == CpInit /\ [][CpNext]_vars

(***************************************************************************)
(* Properties of the enable/disable state machine (src/canProgram.py).     *)
(***************************************************************************)
DisPcs == {"dis_speed", "dis_enable", "dis_query", "dis_ret"}

EnPcs == {"en_predis", "en_prequery", "en_wc", "en_hc", "en_enable",
          "en_query", "en_ret"}

\* C1: an Enabling sequence in which some motor's enable retries ran out
\* without a confirming answer does not end in Enabled: the state is never
\* Enabled while a motor of the last Enabling sequence is unverified.
C1_FailedEnableEndsDisabled ==
    enFailed => system_state # STATE_ENABLED

\* C2: while Enabled, once no fresh input sample has arrived for the watchdog
\* timeout plus the ticks allowed for the stop, the state has left Enabled
\* (stale counts the sample-less iterations spent in Enabled).
C2_WatchdogStops ==
    stale >= WatchdogTicks + StopTicks => system_state # STATE_ENABLED

\* C3: a velocity frame is written with a non-zero speed only in Enabled; in
\* every other state a velocity frame written is a zero-velocity frame of the
\* stop sequence (state Disabling).
C3_NonZeroSpeedOnlyEnabled ==
    IsSpeedFrame(tx) =>
        \/ system_state = STATE_ENABLED
        \/ SpeedOf(tx) = 0 /\ system_state = STATE_DISABLING /\ pc \in DisPcs

C3_Witness ==
    IsSpeedFrame(tx) /\ SpeedOf(tx) # 0 /\ system_state = STATE_ENABLED

\* C4: after a transport I/O error the script never ends with the state left
\* at Enabled or Enabling.
C4_IOErrorEndsSafe ==
    pc = "crashed" => system_state \notin {STATE_ENABLED, STATE_ENABLING}

\* C5: a Disabling sequence sends at most DISABLE_TRIES Enable(false) frames
\* to a motor and at most STOP_ROUNDS zero-velocity frames, whatever the
\* queries answer, and at each of its positions its next statement can run
\* (it waits for nothing); wherever the script runs on outside disable_all
\* the state is not Disabling; and the step that leaves the sequence sets the
\* state to Disabled.
C5_DisablingEndsDisabled ==
    /\ [](pc \in DisPcs =>
            /\ sent <= DISABLE_TRIES
            /\ \A m \in Motors : zeroCnt[m] <= STOP_ROUNDS
            /\ ENABLED (DisSpeed \/ DisEnable \/ DisQuery \/ DisReturn))
    /\ [](pc \in {"loop", "drive", "send", "close", "exited"} \cup EnPcs
            => system_state # STATE_DISABLING)
    /\ [][pc = "dis_ret" /\ pc' \in {"drive", "close"}
            => system_state' = STATE_DISABLED]_vars

\* The last motor used up its retries without ever answering 'disabled', and
\* the sequence is at its end.
C5_Witness ==
    /\ pc = "dis_ret"
    /\ st # "False"
    /\ sent = DISABLE_TRIES
    /\ falseSent = Motors

\* C6: the serial port is closed only after the full Disabling sequence: the
\* state is Disabled and every motor has been sent zero velocity and then
\* Enable(false) since the shutdown signal.
C6_ShutdownDisablesBeforeClose ==
    ~ser_open =>
        /\ system_state = STATE_DISABLED
        /\ \A m \in Motors : zeroCnt[m] >= 1 /\ m \in falseSent

\* C7: the state becomes Enabled only out of Enabling, and Enabling is
\* entered only from Disabled by the loop seeing START pressed after having
\* seen it released; from Disabled nothing else leads towards Enabled.
C7_EnabledOnlyOnRequest ==
    [][/\ (system_state' = STATE_ENABLED /\ system_state # STATE_ENABLED)
            => system_state = STATE_ENABLING
       /\ (system_state' = STATE_ENABLING /\ system_state # STATE_ENABLING)
            => /\ system_state = STATE_DISABLED
               /\ pc = "loop"
               /\ joy'.start = 1
               /\ prev_start = 0]_vars

\* Enabled again after a complete stop sequence.
C7_Witness ==
    /\ system_state = STATE_ENABLED
    /\ falseSent = Motors
    /\ pc = "drive"

\* C8: in an Enabling sequence a motor gets between 1 and ENABLE_TRIES
\* Enable(true) frames: none after a confirming answer, exactly ENABLE_TRIES
\* if no answer confirms; and the other retry loops are capped too.
C8_EnableRetriesBounded ==
    /\ [](pc \in {"en_enable", "en_query", "en_ret"} => sent <= ENABLE_TRIES)
    /\ [](pc \in {"en_predis", "en_prequery"} => sent <= PRE_DISABLE_TRIES)
    /\ [](pc \in {"dis_enable", "dis_query"} => sent <= DISABLE_TRIES)
    /\ [](pc = "en_enable" /\ sent >= 1 => st # "True")
    /\ [][pc = "en_query" /\ pc' \in {"en_predis", "en_ret"}
            => /\ sent >= 1
               /\ (st' # "True" => sent = ENABLE_TRIES)]_vars

\* All ENABLE_TRIES attempts on the last motor went unconfirmed.
C8_Witness ==
    pc = "en_ret" /\ sent = ENABLE_TRIES /\ st # "True"

\* C9: in a Disabling sequence no Enable(false) frame is written before every
\* motor has been sent two zero-velocity frames.
C9_TwoZeroBeforeDisable ==
    (system_state = STATE_DISABLING /\ falseSent # {})
        => \A m \in Motors : zeroCnt[m] >= 2

C9_Witness ==
    /\ system_state = STATE_DISABLING
    /\ IsEnableFrame(tx, FALSE)
    /\ Cardinality(falseSent) = 1
    /\ \A m \in Motors : zeroCnt[m] >= 2

\* C10: in an Enabling sequence a motor is sent WorkingCurrent, then
\* HoldingCurrentPercent, then Enable(true).
C10_CurrentsBeforeEnable ==
    system_state = STATE_ENABLING =>
        /\ IsEnableFrame(tx, TRUE)
             => FrameId(tx) \in wcSent /\ FrameId(tx) \in hcSent
        /\ IsHoldCurrentFrame(tx) => FrameId(tx) \in wcSent
        /\ hcSent \subseteq wcSent

C10_Witness ==
    /\ system_state = STATE_ENABLING
    /\ IsEnableFrame(tx, TRUE)
    /\ FrameId(tx) \in wcSent
    /\ FrameId(tx) \in hcSent

(***************************************************************************)
(* src/PIDconf.py: the encoder build_usbcan_frame and the stream deframer  *)
(* UsbCanParser.  Bytes are 0..255; 0xAA = 170, 0x55 = 85, 0xC0 = 192.     *)
(***************************************************************************)
MaxStream == 7
MaxFrames == 2
MaxNoise == 2
MaxPending == 9
WaitTicks == 2
\* Largest change of the rpm sent to a wheel from one send to the next that
\* a ramp would allow (max_rate * dt), in rpm
RampStepRpm == 100

MAX_CAN_ID == 2047
MAX_DLC == 8
MIN_BUF_LEN == 6

\* Mutant: the identifier is left out of the checksum.
can_crc_no_id(can_id, data) ==
    SumSeq([k \in 1..Len(data) |-> data[k] % 256]) % 256

\* can_crc: (int(can_id) + sum(int(b) & 0xFF for b in data)) & 0xFF
can_crc(can_id, data) ==
    (can_id + SumSeq([k \in 1..Len(data) |-> data[k] % 256])) % 256

\* Mutant: the length nibble counts the data bytes without the checksum.
build_usbcan_frame_dlc(can_id, data) ==
    <<170, 192 + (Len(data) % 16), can_id % 256, (can_id \div 256) % 256>>
        \o data \o <<can_crc(can_id, data), 85>>

\* build_usbcan_frame: the bytes returned; <<>> stands for the ValueError of
\* its two range checks and of bytes([...]) given a value outside 0..255
build_usbcan_frame(can_id, data) ==
    LET dlc  == Len(data) + 1
        crc  == can_crc(can_id, data)
        ctrl == 192 + (dlc % 16)
    IN  IF ~(0 <= can_id /\ can_id <= MAX_CAN_ID) THEN <<>>
        ELSE IF ~(0 <= dlc /\ dlc <= MAX_DLC) THEN <<>>
        ELSE IF \E k \in 1..Len(data) : data[k] < 0 \/ data[k] > 255
             THEN <<>>
        ELSE <<170, ctrl, can_id % 256, (can_id \div 256) % 256>>
                 \o data \o <<crc, 85>>

\* bytearray.index(x): the 0-based position of the first x, -1 for ValueError
index(b, x) ==
    IF \E k \in 1..Len(b) : b[k] = x
    THEN (CHOOSE k \in 1..Len(b) : b[k] = x /\ \A j \in 1..(k - 1) : b[j] # x)
         - 1
    ELSE -1

\* self.buf[i] with 0-based i; -1 stands for the IndexError of a bad index
Get(b, i) == IF 0 <= i /\ i < Len(b) THEN b[i + 1] ELSE -1

\* del self.buf[:n]
DelPrefix(b, n) == SubSeq(b, Min(n, Len(b)) + 1, Len(b))

\* if len(self.buf) < 6: return None
TooShort(b) == Len(b) < MIN_BUF_LEN

\* Mutant: the false header stays in the buffer.
DropHeader_keep(b) == b

\* del self.buf[0]
DropHeader(b) == Tail(b)

\* Mutant: an incomplete frame is thrown away instead of being kept.
KeepPartial_clear(b) == <<>>

\* return None with the buffer left as it is (the frame is not complete yet)
KeepPartial(b) == b

\* Mutant: the received checksum is not compared.
CrcOk_unchecked(can_id, data_wo_crc, rx_crc) == TRUE

\* not (rx_crc != exp_crc)
CrcOk(can_id, data_wo_crc, rx_crc) == rx_crc = can_crc(can_id, data_wo_crc)

\* One pass through the body of 'while True' in next_frame, on buffer b:
\* kind "return" (fr = <<>> for None, <<can_id, data_wo_crc>> for a frame),
\* "continue", or "raise"; buf is the buffer the pass leaves.
next_frame_iter(b) ==
    LET i  == index(b, 170)
        b1 == IF i > 0 THEN DelPrefix(b, i) ELSE b
        ctrl == Get(b1, 1)
        dlc  == ctrl % 16
        total_len == 2 + 2 + dlc + 1
        can_id == Get(b1, 2) + 256 * Get(b1, 3)
        can_payload == SubSeq(b1, 5, Min(4 + dlc, Len(b1)))
        data_wo_crc == SubSeq(can_payload, 1, Len(can_payload) - 1)
        rx_crc == Get(can_payload, Len(can_payload) - 1)
    IN  IF i < 0
        THEN [kind |-> "return", buf |-> <<>>, fr |-> <<>>]
        ELSE IF TooShort(b1)
        THEN [kind |-> "return", buf |-> KeepPartial(b1), fr |-> <<>>]
        ELSE IF ctrl < 0
        THEN [kind |-> "raise", buf |-> b1, fr |-> <<>>]
        ELSE IF (ctrl \div 16) * 16 # 192
        THEN [kind |-> "continue", buf |-> DropHeader(b1), fr |-> <<>>]
        ELSE IF Len(b1) < total_len
        THEN [kind |-> "return", buf |-> KeepPartial(b1), fr |-> <<>>]
        ELSE IF Get(b1, total_len - 1) # 85
        THEN [kind |-> "continue", buf |-> DropHeader(b1), fr |-> <<>>]
        ELSE IF dlc < 1
        THEN [kind |-> "continue", buf |-> DelPrefix(b1, total_len),
              fr |-> <<>>]
        ELSE IF rx_crc < 0
        THEN [kind |-> "raise", buf |-> DelPrefix(b1, total_len), fr |-> <<>>]
        ELSE IF ~CrcOk(can_id, data_wo_crc, rx_crc)
        THEN [kind |-> "continue", buf |-> DelPrefix(b1, total_len),
              fr |-> <<>>]
        ELSE [kind |-> "return", buf |-> DelPrefix(b1, total_len),
              fr |-> <<can_id, data_wo_crc>>]

\* next_frame() run to its return on buffer b; every pass that continues
\* has shortened the buffer, so the recursion ends.
RECURSIVE next_frame(_)
next_frame(b) ==
    LET r == next_frame_iter(b)
    IN  IF r.kind = "continue" /\ Len(r.buf) < Len(b)
        THEN next_frame(r.buf) ELSE r

\* next_frame() called until it returns None: the frames it returned.
RECURSIVE Drain(_)
Drain(b) ==
    LET r == next_frame(b)
    IN  IF r.kind = "return" /\ r.fr # <<>>
        THEN <<r.fr>> \o Drain(r.buf) ELSE <<>>

\* The bytes of one entry of the wire, and of the whole wire.
EntryBytes(e) ==
    IF e[1] = "frame" THEN build_usbcan_frame(e[2], e[3]) ELSE e[2]

RECURSIVE Fed(_)
Fed(w) == IF w = <<>> THEN <<>> ELSE EntryBytes(Head(w)) \o Fed(Tail(w))

\* Bytes the checks send as noise: start marker, control bytes with length
\* 0 and 1, tail (a tail is also the checksum of identifier 0x55).
NoiseBytes == {170, 192, 193, 85}

\* Noise joins the noise that is already last on the wire.
AddNoise(w, b) ==
    IF w # <<>> /\ w[Len(w)][1] = "noise"
    THEN [w EXCEPT ![Len(w)] = <<"noise", Append(@[2], b)>>]
    ELSE Append(w, <<"noise", <<b>>>>)

\* canProgram.py is not running while PIDconf.py has the port.
CanIdle ==
    /\ system_state = STATE_DISABLED
    /\ prev_start = 0
    /\ elapsed = SEND_PERIOD_MS
    /\ joy = JoyRest
    /\ stale = 0
    /\ pc = "off"
    /\ caller = "main"
    /\ mi = 1
    /\ tryN = 1
    /\ rnd = 1
    /\ st = "None"
    /\ tx = <<>>
    /\ ser_open = TRUE
    /\ zeroCnt = NoCount
    /\ falseSent = {}
    /\ wcSent = {}
    /\ hcSent = {}
    /\ sent = 0
    /\ enFailed = FALSE

\* parser = UsbCanParser()
ParserInit ==
    /\ CanIdle
    /\ cmd = <<>>
    /\ WebIdle
    /\ wire = <<>>
    /\ buf = <<>>
    /\ frames = <<>>
    /\ ppc = "idle"
    /\ ret = <<>>
    /\ inq = <<>>
    /\ now = 0

\* parser.feed(chunk), one byte of an arbitrary stream at a time (feeding
\* n bytes at once is n such calls with no next_frame in between)
FeedByte ==
    /\ ppc = "idle"
    /\ Len(Fed(wire)) < MaxStream
    /\ \E b \in NoiseBytes :
         /\ buf' = Append(buf, b)
         /\ wire' = AddNoise(wire, b)
    /\ UNCHANGED <<frames, ppc, ret, inq, now, canvars, cmd,
                   webvars>>

\* fr = parser.next_frame(): entry into 'while True'
CallNextFrame ==
    /\ ppc = "idle"
    /\ ppc' = "scan"
    /\ UNCHANGED <<wire, buf, frames, ret, inq, now, canvars, cmd,
                   webvars>>

\* one pass through the body of 'while True'
ScanIter ==
    /\ ppc = "scan"
    /\ LET r == next_frame_iter(buf)
       IN  /\ buf' = r.buf
           /\ ppc' = CASE r.kind = "continue" -> "scan"
                       [] r.kind = "return" -> "idle"
                       [] r.kind = "raise" -> "raised"
           /\ ret' = IF r.kind = "return" THEN r.fr ELSE ret
           /\ frames' = IF r.kind = "return" /\ r.fr # <<>>
                        THEN Append(frames, r.fr) ELSE frames
    /\ UNCHANGED <<wire, inq, now, canvars, cmd,
                   webvars>>

ParserNext ==
    \/ FeedByte
    \/ CallNextFrame
    \/ ScanIter

SpecParser == ParserInit /\ [][ParserNext]_vars

\* Frames and noise for the checks of resynchronisation: identifiers and
\* payloads whose bytes repeat the markers, and noise that looks like the
\* start of a frame (0xAA, 0xC2).
StreamFrames == {<<85, <<>>>>, <<1, <<85>>>>, <<170, <<170, 193>>>>}

\* The (can_id, data) pairs of the frames on the wire, in order.
Encoded(w) ==
    LET fs == SelectSeq(w, LAMBDA e : e[1] = "frame")
    IN  [k \in 1..Len(fs) |-> <<fs[k][2], fs[k][3]>>]

\* ser.write(build_usbcan_frame(can_id, data)) at the far end, and the
\* parser fed with it
FeedFrame ==
    /\ ppc = "idle"
    /\ Len(Encoded(wire)) < MaxFrames
    /\ \E f \in StreamFrames :
         /\ build_usbcan_frame(f[1], f[2]) # <<>>
         /\ buf' = buf \o build_usbcan_frame(f[1], f[2])
         /\ wire' = Append(wire, <<"frame", f[1], f[2]>>)
    /\ UNCHANGED <<frames, ppc, ret, inq, now, canvars, cmd,
                   webvars>>

\* a byte of line noise reaches the parser
FeedNoise ==
    /\ ppc = "idle"
    /\ Len(Fed(wire)) - Len(Fed(SelectSeq(wire, LAMBDA e : e[1] = "frame")))
          < MaxNoise
    /\ \E b \in {170, 194, 85} :
         /\ buf' = Append(buf, b)
         /\ wire' = AddNoise(wire, b)
    /\ UNCHANGED <<frames, ppc, ret, inq, now, canvars, cmd,
                   webvars>>

NoiseNext ==
    \/ FeedFrame
    \/ FeedNoise
    \/ CallNextFrame
    \/ ScanIter

SpecNoise == ParserInit /\ [][NoiseNext]_vars

\* Identifiers, payloads and replacement byte values for the checks of the
\* codec: identifiers on both sides of the low byte, payloads of every
\* length build_usbcan_frame accepts (1 .. MAX_DLC - 1 bytes of data).
CanIds == {1, 170, 2047}

Payloads ==
    UNION {[1..n -> {85, 170}] : n \in 1..(MAX_DLC - 1)}

ByteValues == {0, 85, 170, 193}

\* parser = UsbCanParser(); parser.feed(build_usbcan_frame(can_id, data))
FeedBuilt ==
    /\ ppc = "idle"
    /\ wire = <<>>
    /\ \E id \in CanIds, data \in Payloads :
         /\ build_usbcan_frame(id, data) # <<>>
         /\ buf' = build_usbcan_frame(id, data)
         /\ wire' = <<<<"frame", id, data>>>>
    /\ UNCHANGED <<frames, ppc, ret, inq, now, canvars, cmd,
                   webvars>>

\* the same with one byte of the frame changed on the way: the entry of the
\* wire keeps the bytes received and the (can_id, data) that were encoded
FeedChanged ==
    /\ ppc = "idle"
    /\ wire = <<>>
    /\ \E id \in CanIds, data \in Payloads :
         \E k \in 1..Len(build_usbcan_frame(id, data)), v \in ByteValues :
            /\ build_usbcan_frame(id, data)[k] # v
            /\ buf' = [build_usbcan_frame(id, data) EXCEPT ![k] = v]
            /\ wire' = <<<<"changed", buf', id, data, k>>>>
    /\ UNCHANGED <<frames, ppc, ret, inq, now, canvars, cmd,
                   webvars>>

\* parser = UsbCanParser(); parser.feed(chunk) with a chunk that is laid out
\* as a frame, checksum and tail in place, whose length nibble is above
\* MAX_DLC (no build_usbcan_frame makes it; the port delivers any bytes)
FeedLong ==
    /\ ppc = "idle"
    /\ wire = <<>>
    /\ \E id \in CanIds, n \in MAX_DLC..14 :
         LET data == [k \in 1..n |-> 85]
         IN  /\ buf' = <<170, 192 + n + 1, id % 256, id \div 256>>
                           \o data \o <<can_crc(id, data), 85>>
             /\ wire' = <<<<"long", buf'>>>>
    /\ UNCHANGED <<frames, ppc, ret, inq, now, canvars, cmd,
                   webvars>>

CodecNext ==
    \/ FeedBuilt
    \/ FeedChanged
    \/ FeedLong
    \/ CallNextFrame
    \/ ScanIter

SpecCodec == ParserInit /\ [][CodecNext]_vars

(***************************************************************************)
(* Properties of the deframer.                                             *)
(***************************************************************************)
\* The buffer once the bytes before the first start marker are gone.
AtHeader(b) == IF index(b, 170) > 0 THEN DelPrefix(b, index(b, 170)) ELSE b

\* C12: for a stream noise ++ frame ++ noise ++ frame whose noise holds no
\* complete valid frame, calling next_frame until it returns None yields
\* exactly the two frames, in order.
C12_ResyncAfterNoise ==
    (/\ Len(Encoded(wire)) = 2
     /\ wire[Len(wire)][1] = "frame"
     /\ \A k \in 1..Len(wire) :
          wire[k][1] = "noise" =>
              Len(wire[k][2]) < MIN_BUF_LEN /\ Drain(wire[k][2]) = <<>>)
        => frames \o Drain(buf) = Encoded(wire)

\* C13: when the candidate frame at the head of the buffer fails validation
\* (wrong control byte, wrong end marker or checksum mismatch; a length
\* nibble of 0 is left aside), the pass removes exactly the leading start
\* marker and no other buffered byte.
C13_FailureDropsOnlyHeader ==
    [][ppc = "scan" /\ ppc' = "scan" /\ Get(AtHeader(buf), 1) # 192
         => buf' = Tail(AtHeader(buf))]_vars

\* C14: for a stream that is k valid frames one after the other, next_frame
\* returns exactly those frames, once each and in order, and then None; and
\* whatever the stream, a frame is returned only from bytes with a 0xAA
\* header, a 0xC? control byte, a 0x55 tail and the checksum
\* (identifier + sum of the payload) mod 256.
C14_FramesOnceInOrder ==
    /\ (\A k \in 1..Len(wire) : wire[k][1] = "frame") =>
          /\ frames \o Drain(buf) = Encoded(wire)
          /\ frames = Encoded(wire) =>
                next_frame(buf).kind = "return" /\ next_frame(buf).fr = <<>>
    /\ ppc = "scan" /\ next_frame_iter(buf).fr # <<>> =>
          LET r == next_frame_iter(buf)
              h == AtHeader(buf)
              n == Len(h) - Len(r.buf)
          IN  /\ h[1] = 170
              /\ h[2] \div 16 = 12
              /\ h[n] = 85
              /\ r.fr[1] = h[3] + 256 * h[4]
              /\ r.fr[2] = SubSeq(h, 5, n - 2)
              /\ h[n - 1] = (r.fr[1] + SumSeq(r.fr[2])) % 256

\* C14 witness: two frames were sent, both have been returned, and the call
\* after them has returned None.
C14_Witness ==
    /\ Len(wire) = 2
    /\ \A k \in 1..Len(wire) : wire[k][1] = "frame"
    /\ frames = Encoded(wire)
    /\ ppc = "idle"
    /\ ret = <<>>
    /\ buf = <<>>

\* C15: next_frame never raises, returns None or one (identifier, payload)
\* pair, and every pass through its scan loop either returns or leaves the
\* buffer strictly shorter, so it terminates.
C15_ScanTerminates ==
    /\ ppc # "raised"
    /\ ret = <<>> \/ Len(ret) = 2
    /\ ppc = "scan" =>
          \/ next_frame_iter(buf).kind = "return"
          \/ Len(next_frame_iter(buf).buf) < Len(buf)

\* C15 witness: a pass has rejected a candidate and the scan goes on with a
\* shorter buffer whose head is no start marker.
C15_Witness ==
    /\ ppc = "scan"
    /\ frames = <<>>
    /\ buf # <<>>
    /\ buf[1] # 170
    /\ Len(buf) < Len(Fed(wire))

\* C18: the frames returned so far, followed by those still to be drained
\* from the buffer, are the frames a single feed of the whole stream gives:
\* a partly received frame stays buffered, and the split of the stream into
\* feeds and the interleaving of next_frame calls change nothing.
C18_SplitIndependent ==
    frames \o Drain(buf) = Drain(Fed(wire))

\* C18 witness: after a frame was returned, a later call has returned None
\* and the start of a next frame is waiting in the buffer.
C18_Witness ==
    /\ ppc = "idle"
    /\ ret = <<>>
    /\ frames # <<>>
    /\ buf # <<>>
    /\ buf[1] = 170
    /\ Len(buf) < MIN_BUF_LEN

\* C16: whichever single byte of a valid frame is changed, the parser never
\* raises and never returns a frame whose identifier or payload differs
\* from the ones that were encoded.
C16_ChangedByteRejected ==
    wire # <<>> /\ wire[1][1] = "changed" =>
        /\ ppc # "raised"
        /\ \A k \in 1..Len(frames) : frames[k] = <<wire[1][3], wire[1][4]>>

\* C16 as amended: a changed ID_LO, payload byte or checksum byte makes
\* next_frame reject the frame: it returns no frame, and never raises.
C16_ChangedSumByteRejected ==
    (/\ wire # <<>>
     /\ wire[1][1] = "changed"
     /\ wire[1][5] = 3 \/ (wire[1][5] >= 5 /\ wire[1][5] < Len(wire[1][2])))
        => /\ ppc # "raised"
           /\ frames = <<>>
           /\ Drain(buf) = <<>>

\* C16 witness: a frame with a changed payload byte was fed and the call has
\* returned None, leaving nothing of it in the buffer.
C16_Witness ==
    /\ wire # <<>>
    /\ wire[1][1] = "changed"
    /\ wire[1][5] = 5
    /\ ppc = "idle"
    /\ frames = <<>>
    /\ buf = <<>>

\* C17: build_usbcan_frame(id, payload) fed to an empty parser: next_frame
\* returns exactly (id, payload) and leaves the buffer empty.
C17_RoundTrip ==
    wire # <<>> /\ wire[1][1] = "frame" =>
        /\ ppc = "scan" /\ frames = <<>> =>
              next_frame(buf) = [kind |-> "return", buf |-> <<>>,
                                 fr |-> <<wire[1][2], wire[1][3]>>]
        /\ ppc = "idle" /\ buf # EntryBytes(wire[1]) =>
              /\ frames = <<<<wire[1][2], wire[1][3]>>>>
              /\ buf = <<>>

\* C17 witness: a frame with a 7-byte payload and an identifier above 0xFF
\* has come back from next_frame.
C17_Witness ==
    /\ wire # <<>>
    /\ wire[1][1] = "frame"
    /\ wire[1][2] > 255
    /\ Len(wire[1][3]) = MAX_DLC - 1
    /\ ppc = "idle"
    /\ frames = <<<<wire[1][2], wire[1][3]>>>>

\* C19: in every CAN-encapsulated frame written by a command function the
\* high 4 bits of CTRL are 0xC and its low 4 bits are the number of bytes
\* between ID_HI and the 0x55 tail (the payload plus the checksum byte).
C19_CtrlCountsPayloadAndCrc ==
    tx # <<>> => tx[2] \div 16 = 12 /\ tx[2] % 16 = Len(tx) - 5

(***************************************************************************)
(* The command encoders called on their own, on arguments that the scripts *)
(* themselves never pass (any identifier, any rpm = num/den).              *)
(***************************************************************************)
EncIds == {1, 4, 256, 2047, 2048}

RpmNums == {-2147483647, 2147483647, -70000, -6001, -3001, -3000, -256, -50, -1, 0, 1, 50, 100, 255,
            256, 2999, 3000, 3001, 4095, 4096, 6001, 70000}

\* send_speed(ser, can_id, rpm) of canProgram.py or of CanProgram.py
CallSendSpeed ==
    /\ cmd = <<>>
    /\ \E script \in {"canProgram", "CanProgram"}, id \in EncIds,
          num \in RpmNums, den \in {1, 2} :
         /\ cmd' = <<script, id, num, den>>
         /\ tx' = IF script = "canProgram" THEN send_speed(id, num, den)
                  ELSE cp_send_speed(id, num, den)
    /\ UNCHANGED <<idlevars, st, parservars, webvars>>

\* Before any call: nothing written yet, the other programs idle.
EncodeInit == CanIdle /\ OthersIdle

\* C20: send_speed writes one frame AA, C5, ID_LO, ID_HI, F6,
\* (dir<<7)|((speed>>8)&0x0F), speed&0xFF, accel, CRC, 55 with dir = 1 exactly
\* for a negative rpm, speed the magnitude of rpm and CRC the sum of the
\* identifier and the four payload bytes mod 256; rpm = 100 for identifier 1
\* gives payload F6 00 64 02 and CRC 0x5D, rpm = -50 gives bytes 0x80, 0x32.
C20_SendSpeedFrame ==
    cmd # <<>> /\ cmd[1] \in {"canProgram", "CanProgram"} /\ cmd[4] = 1 =>
        LET id    == cmd[2]
            dir   == IF cmd[3] < 0 THEN 1 ELSE 0
            speed == Abs(cmd[3])
            b2    == dir * 128 + ((speed \div 256) % 16)
            b3    == speed % 256
        IN  /\ tx = <<170, 197, id % 256, (id \div 256) % 256, 246, b2, b3,
                      tx[8], (id + 246 + b2 + b3 + tx[8]) % 256, 85>>
            /\ id = 1 /\ cmd[3] = 100 =>
                  SubSeq(tx, 5, 9) = <<246, 0, 100, 2, 93>>
            /\ cmd[3] = -50 => tx[6] = 128 /\ tx[7] = 50

\* C20 as amended: the same frame with speed = min(int(|rpm|), 3000) and
\* with the script's constant ACC as the acceleration byte.
C20_SendSpeedFrameClamped ==
    cmd # <<>> /\ cmd[1] \in {"canProgram", "CanProgram"} =>
        LET id    == cmd[2]
            dir   == IF cmd[3] < 0 THEN 1 ELSE 0
            speed == Min(Abs(cmd[3]) \div cmd[4], 3000)
            b2    == dir * 128 + ((speed \div 256) % 16)
            b3    == speed % 256
            acc   == IF cmd[1] = "canProgram" THEN ACC ELSE CP_ACC
        IN  /\ tx = <<170, 197, id % 256, (id \div 256) % 256, 246, b2, b3,
                      acc, (id + 246 + b2 + b3 + acc) % 256, 85>>
            /\ cmd[3] = -50 /\ cmd[4] = 1 => tx[6] = 128 /\ tx[7] = 50

\* C20 witness: send_speed of canProgram.py was called with rpm = -3001 and
\* has written the clamped magnitude 3000 = 0x0BB8 with the direction bit.
C20_Witness ==
    /\ cmd # <<>>
    /\ cmd[1] = "canProgram"
    /\ cmd[3] = -3001
    /\ cmd[4] = 1
    /\ tx[6] = 128 + 11
    /\ tx[7] = 184

(***************************************************************************)
(* src/configuraciónMotores.py: the Flask handlers and the motor_loop      *)
(* thread.  One action per statement that touches a lock, a shared         *)
(* variable or the port; time.time() and time.sleep() are left out.        *)
(***************************************************************************)
ADDR == 1
SPD_ACC == 2
MAX_SPEED_RPM == 300
ABS_MAX_RPM == 3000

\* Mutant: the first byte is left out of the sum.
checksum8_tail(data) == SumSeq(Tail(data)) % 256

\* checksum8: sum(data) & 0xFF
checksum8(data) == SumSeq(data) % 256

\* build_frame(cmd, data) of configuraciónMotores.py: FA, ADDR, cmd, data, CHK
fa_build_frame(c, data) ==
    LET wo == <<250, ADDR % 256, c % 256>>
                  \o [k \in 1..Len(data) |-> data[k] % 256]
    IN  wo \o <<checksum8(wo)>>

\* Mutant: the magnitude is not limited to ABS_MAX_RPM.
frame_f6_speed_unclamped(rpm_signed) ==
    LET direction == IF rpm_signed < 0 THEN 1 ELSE 0
        speed == Abs(rpm_signed)
    IN  fa_build_frame(246, <<direction * 128 + ((speed \div 256) % 16),
                              speed % 256, SPD_ACC % 256>>)

\* frame_f6_speed(rpm_signed)
frame_f6_speed(rpm_signed) ==
    LET direction == IF rpm_signed < 0 THEN 1 ELSE 0
        speed == Min(Abs(rpm_signed), ABS_MAX_RPM)
        byte4 == direction * 128 + ((speed \div 256) % 16)
        byte5 == speed % 256
    IN  fa_build_frame(246, <<byte4, byte5, SPD_ACC % 256>>)

\* read_31_pos_counts: the value returned for the reply; <<>> is None,
\* <<hi, lo>> the position hi * 2^24 + lo (int48_be_signed of bytes 3..8,
\* kept in two halves: hi is signed, lo is 0 .. 2^24 - 1)
read_31_pos_counts(reply) ==
    IF Len(reply) # 10 THEN <<>>
    ELSE IF reply[1] # 251 \/ reply[2] # ADDR % 256 \/ reply[3] # 49 THEN <<>>
    ELSE IF checksum8(SubSeq(reply, 1, 9)) # reply[10] THEN <<>>
    ELSE LET hi == reply[4] * 65536 + reply[5] * 256 + reply[6]
             lo == reply[7] * 65536 + reply[8] * 256 + reply[9]
         IN  <<IF reply[4] >= 128 THEN hi - 16777216 ELSE hi, lo>>

\* app.run(threaded=True): every request runs in a thread of its own
Handlers == {"h1", "h2"}

\* Mutant: no rpm is out of range.
OutOfRange_none(rpm) == FALSE

\* if rpm < -MAX_SPEED_RPM or rpm > MAX_SPEED_RPM
OutOfRange(rpm) == rpm < -MAX_SPEED_RPM \/ rpm > MAX_SPEED_RPM

\* What s.read(read_len) can return: nothing (timeout), or the answer to
\* 0x31 with position 0
Replies == {<<>>, <<251, 1, 49, 0, 0, 0, 0, 0, 0, 45>>}

\* Mutant: /api/stop writes the stop frame to the port itself.
handler_tx_direct(route) ==
    IF route = "st_cs" THEN frame_f6_speed(0) ELSE <<>>

\* The bytes a handler writes to the port: none ("aquí NO se escribe a
\* RS485"); no handler has a reference to the Link object.
handler_tx(route) == <<>>

\* main(): th.start(); app.run(...)
WebInit ==
    /\ CanIdle
    /\ wire = <<>>
    /\ buf = <<>>
    /\ frames = <<>>
    /\ ppc = "off"
    /\ ret = <<>>
    /\ inq = <<>>
    /\ now = 0
    /\ cmd = <<>>
    /\ desired_speed_rpm = 0
    /\ speed_lock = "free"
    /\ status_lock = "free"
    /\ status = [link_ok |-> FALSE, last_error |-> "None", last_tx |-> <<>>,
                 last_rx |-> <<>>, last_pos_counts |-> <<>>]
    /\ hpc = [h \in Handlers |-> "idle"]
    /\ hreq = [h \in Handlers |-> 0]
    /\ mpc = "top"
    /\ loop_rpm = 0
    /\ last_sent_speed = <<>>
    /\ link_ser = FALSE
    /\ txq = <<>>
    /\ line = <<>>
    /\ rx = <<>>
    /\ port_users = {}

\* while not stop_event.is_set(): ... with speed_lock: (acquire)
MotorLockSpeed ==
    /\ mpc = "top"
    /\ speed_lock = "free"
    /\ speed_lock' = "motor"
    /\ mpc' = "read"
    /\ UNCHANGED <<desired_speed_rpm, status_lock, status, hpc, hreq,
                   loop_rpm, last_sent_speed, link_ser, txq, line, rx,
                   port_users, canvars, parservars, cmd>>

\* rpm = int(desired_speed_rpm); release; the clamp to the dial range;
\* if rpm != last_sent_speed
MotorReadSetpoint ==
    /\ mpc = "read"
    /\ loop_rpm' = clamp(desired_speed_rpm, -MAX_SPEED_RPM, MAX_SPEED_RPM)
    /\ speed_lock' = "free"
    /\ mpc' = IF <<loop_rpm'>> # last_sent_speed THEN "s_begin" ELSE "health"
    /\ UNCHANGED <<desired_speed_rpm, status_lock, status, hpc, hreq,
                   last_sent_speed, link_ser, txq, line, rx, port_users,
                   canvars, parservars, cmd>>

\* link.txrx(tx): self.open() if the port is not open, reset_input_buffer()
MotorTxrxBegin ==
    /\ mpc \in {"s_begin", "p_begin"}
    /\ link_ser' = TRUE
    /\ txq' = IF mpc = "s_begin" THEN frame_f6_speed(loop_rpm)
              ELSE fa_build_frame(49, <<>>)
    /\ mpc' = IF mpc = "s_begin" THEN "s_write" ELSE "p_write"
    /\ port_users' = port_users \cup {"motor"}
    /\ UNCHANGED <<desired_speed_rpm, speed_lock, status_lock, status, hpc,
                   hreq, loop_rpm, last_sent_speed, line, rx, canvars,
                   parservars, cmd>>

\* s.write(tx); s.flush(): the bytes go out one after the other
MotorWriteByte ==
    /\ mpc \in {"s_write", "p_write"}
    /\ txq # <<>>
    /\ txq' = Tail(txq)
    /\ line' = IF Len(txq) = 1 THEN <<>> ELSE Append(line, Head(txq))
    /\ mpc' = IF Len(txq) > 1 THEN mpc
              ELSE IF mpc = "s_write" THEN "s_read" ELSE "p_read"
    /\ UNCHANGED <<desired_speed_rpm, speed_lock, status_lock, status, hpc,
                   hreq, loop_rpm, last_sent_speed, link_ser, rx,
                   port_users, canvars, parservars, cmd>>

\* time.sleep(INTER_FRAME_DELAY); rx = s.read(read_len)
MotorRead ==
    /\ mpc \in {"s_read", "p_read"}
    /\ \E reply \in Replies : rx' = reply
    /\ mpc' = IF mpc = "s_read" THEN "s_acq" ELSE "p_acq"
    /\ UNCHANGED <<desired_speed_rpm, speed_lock, status_lock, status, hpc,
                   hreq, loop_rpm, last_sent_speed, link_ser, txq, line,
                   port_users, canvars, parservars, cmd>>

\* with status_lock: (acquire), at each of its four places in motor_loop
MotorLockStatus ==
    /\ mpc \in {"s_acq", "p_acq", "e_acq", "e2_acq"}
    /\ status_lock = "free"
    /\ status_lock' = "motor"
    /\ mpc' = CASE mpc = "s_acq" -> "s_status"
                [] mpc = "p_acq" -> "p_status"
                [] mpc = "e_acq" -> "e_status"
                [] mpc = "e2_acq" -> "e2_status"
    /\ UNCHANGED <<desired_speed_rpm, speed_lock, status, hpc, hreq,
                   loop_rpm, last_sent_speed, link_ser, txq, line, rx,
                   port_users, canvars, parservars, cmd>>

\* the statements of each 'with status_lock:' of motor_loop, one step per
\* assignment that another thread could tell apart, the last with the
\* release: last_tx = tx / last_rx = rx; link_ok = True / last_error = None
\* (then last_sent_speed = rpm); last_pos_counts = pos; link_ok = False /
\* last_error = str(e); last_error = f"{e} | reopen failed: {e2}".  The loop
\* starts over after the 0x31 readback and after a failed reopen
MotorStatus ==
    /\ mpc \in {"s_status", "s_status2", "s_status3", "p_status", "e_status",
                "e_status2", "e2_status"}
    /\ status_lock' = IF mpc \in {"s_status", "s_status2", "e_status"}
                      THEN status_lock ELSE "free"
    /\ status' =
         CASE mpc = "s_status" ->
                [status EXCEPT !.last_tx = frame_f6_speed(loop_rpm)]
           [] mpc = "s_status2" ->
                [status EXCEPT !.last_rx = rx, !.link_ok = TRUE]
           [] mpc = "s_status3" ->
                [status EXCEPT !.last_error = "None"]
           [] mpc = "p_status" ->
                [status EXCEPT !.last_pos_counts = read_31_pos_counts(rx)]
           [] mpc = "e_status" ->
                [status EXCEPT !.link_ok = FALSE]
           [] mpc = "e_status2" ->
                [status EXCEPT !.last_error = "e"]
           [] mpc = "e2_status" ->
                [status EXCEPT !.last_error = "e | reopen failed: e2"]
    /\ last_sent_speed' = IF mpc = "s_status3" THEN <<loop_rpm>>
                          ELSE last_sent_speed
    /\ mpc' = CASE mpc = "s_status" -> "s_status2"
                [] mpc = "s_status2" -> "s_status3"
                [] mpc = "s_status3" -> "health"
                [] mpc = "p_status" -> "top"
                [] mpc = "e_status" -> "e_status2"
                [] mpc = "e_status2" -> "e_open"
                [] mpc = "e2_status" -> "top"
    /\ loop_rpm' = IF mpc' = "top" THEN 0 ELSE loop_rpm
    /\ rx' = IF mpc \in {"s_status", "s_status2"} THEN rx ELSE <<>>
    /\ UNCHANGED <<desired_speed_rpm, speed_lock, hpc, hreq, link_ser, txq,
                   line, port_users, canvars, parservars, cmd>>

\* if ENABLE_READBACK_31: if int(t_start * 10) % 2 == 0: the readback runs
\* in the ticks whose start time says so, else the tick ends
MotorHealth ==
    /\ mpc = "health"
    /\ \E due \in BOOLEAN :
         /\ mpc' = IF due THEN "p_begin" ELSE "top"
         /\ loop_rpm' = IF due THEN loop_rpm ELSE 0
    /\ UNCHANGED <<desired_speed_rpm, speed_lock, status_lock, status, hpc,
                   hreq, last_sent_speed, link_ser, txq, line, rx,
                   port_users, canvars, parservars, cmd>>

\* Mutant: the speed is recorded as sent although the exchange raised.
MotorException_recorded ==
    /\ mpc \in {"s_begin", "s_write", "s_read", "p_begin", "p_write", "p_read"}
    /\ mpc' = "e_acq"
    /\ txq' = <<>>
    /\ line' = <<>>
    /\ rx' = <<>>
    /\ port_users' = port_users \cup {"motor"}
    /\ last_sent_speed' = <<loop_rpm>>
    /\ UNCHANGED <<desired_speed_rpm, speed_lock, status_lock, status, hpc,
                   hreq, loop_rpm, link_ser, canvars, parservars, cmd>>

\* except Exception as e: a call of the port raises
MotorException ==
    /\ mpc \in {"s_begin", "s_write", "s_read", "p_begin", "p_write", "p_read"}
    /\ mpc' = "e_acq"
    /\ txq' = <<>>
    /\ line' = <<>>
    /\ rx' = <<>>
    /\ port_users' = port_users \cup {"motor"}
    /\ UNCHANGED <<desired_speed_rpm, speed_lock, status_lock, status, hpc,
                   hreq, loop_rpm, last_sent_speed, link_ser, canvars,
                   parservars, cmd>>

\* Mutant: a failed reopen ends the thread.
MotorReopen_giveup ==
    /\ mpc = "e_open"
    /\ \E ok \in BOOLEAN :
         /\ link_ser' = ok
         /\ mpc' = IF ok THEN "top" ELSE "off"
         /\ loop_rpm' = 0
    /\ UNCHANGED <<desired_speed_rpm, speed_lock, status_lock, status, hpc,
                   hreq, last_sent_speed, txq, line, rx, port_users,
                   canvars, parservars, cmd>>

\* try: link.open() except Exception as e2: ...
MotorReopen ==
    /\ mpc = "e_open"
    /\ \E ok \in BOOLEAN :
         /\ link_ser' = ok
         /\ mpc' = IF ok THEN "top" ELSE "e2_acq"
         /\ loop_rpm' = IF ok THEN 0 ELSE loop_rpm
    /\ UNCHANGED <<desired_speed_rpm, speed_lock, status_lock, status, hpc,
                   hreq, last_sent_speed, txq, line, rx, port_users,
                   canvars, parservars, cmd>>

\* A request arrives: /api/speed, /api/stop or /api/status.  The JSON body
\* of /api/speed is {"rpm": -300}, {"rpm": 301} or {"speed": 0}; with no
\* "rpm" in it int(data.get("rpm")) raises and the except clause answers
\* 500, an rpm out of range is answered 400, and nothing else happens
ApiRequest(h) ==
    /\ hpc[h] = "idle"
    /\ \/ \E data \in {[rpm |-> -300], [rpm |-> 301], [speed |-> 0]} :
            IF "rpm" \notin DOMAIN data
            THEN UNCHANGED <<hpc, hreq>>
            ELSE IF OutOfRange(data.rpm)
            THEN UNCHANGED <<hpc, hreq>>
            ELSE /\ hpc' = [hpc EXCEPT ![h] = "sp_acq"]
                 /\ hreq' = [hreq EXCEPT ![h] = data.rpm]
       \/ /\ hpc' = [hpc EXCEPT ![h] = "st_acq"]
          /\ UNCHANGED hreq
       \/ /\ hpc' = [hpc EXCEPT ![h] = "ss_acq"]
          /\ UNCHANGED hreq
    /\ UNCHANGED <<desired_speed_rpm, speed_lock, status_lock, status, mpc,
                   loop_rpm, last_sent_speed, link_ser, txq, line, rx,
                   port_users, canvars, parservars, cmd>>

\* Mutant: /api/status reads the status without waiting for status_lock.
HandlerLock_unguarded(h) ==
    /\ hpc[h] \in {"sp_acq", "st_acq", "ss_acq", "ss2_acq"}
    /\ IF hpc[h] = "ss2_acq"
       THEN /\ status_lock' = h
            /\ UNCHANGED speed_lock
       ELSE /\ speed_lock = "free"
            /\ speed_lock' = h
            /\ UNCHANGED status_lock
    /\ hpc' = [hpc EXCEPT ![h] = CASE hpc[h] = "sp_acq" -> "sp_cs"
                                   [] hpc[h] = "st_acq" -> "st_cs"
                                   [] hpc[h] = "ss_acq" -> "ss_cs"
                                   [] hpc[h] = "ss2_acq" -> "ss2_cs"]
    /\ UNCHANGED <<desired_speed_rpm, status, hreq, mpc, loop_rpm,
                   last_sent_speed, link_ser, txq, line, rx, port_users,
                   canvars, parservars, cmd>>

\* with speed_lock: / with status_lock: (acquire) in a handler
HandlerLock(h) ==
    /\ hpc[h] \in {"sp_acq", "st_acq", "ss_acq", "ss2_acq"}
    /\ IF hpc[h] = "ss2_acq"
       THEN /\ status_lock = "free"
            /\ status_lock' = h
            /\ UNCHANGED speed_lock
       ELSE /\ speed_lock = "free"
            /\ speed_lock' = h
            /\ UNCHANGED status_lock
    /\ hpc' = [hpc EXCEPT ![h] = CASE hpc[h] = "sp_acq" -> "sp_cs"
                                   [] hpc[h] = "st_acq" -> "st_cs"
                                   [] hpc[h] = "ss_acq" -> "ss_cs"
                                   [] hpc[h] = "ss2_acq" -> "ss2_cs"]
    /\ UNCHANGED <<desired_speed_rpm, status, hreq, mpc, loop_rpm,
                   last_sent_speed, link_ser, txq, line, rx, port_users,
                   canvars, parservars, cmd>>

\* the body of the handler's 'with' block and the release of its lock:
\* desired_speed_rpm = rpm, desired_speed_rpm = 0, rpm = desired_speed_rpm,
\* st = {...}
HandlerCritical(h) ==
    /\ hpc[h] \in {"sp_cs", "st_cs", "ss_cs", "ss2_cs"}
    /\ desired_speed_rpm' = CASE hpc[h] = "sp_cs" -> hreq[h]
                              [] hpc[h] = "st_cs" -> 0
                              [] OTHER -> desired_speed_rpm
    /\ IF hpc[h] = "ss2_cs"
       THEN status_lock' = "free" /\ UNCHANGED speed_lock
       ELSE speed_lock' = "free" /\ UNCHANGED status_lock
    /\ hpc' = [hpc EXCEPT ![h] = IF hpc[h] = "ss_cs" THEN "ss2_acq"
                                 ELSE "idle"]
    /\ hreq' = [hreq EXCEPT ![h] = 0]
    /\ line' = IF line = <<>> THEN <<>> ELSE line \o handler_tx(hpc[h])
    /\ port_users' = IF handler_tx(hpc[h]) = <<>> THEN port_users
                     ELSE port_users \cup {h}
    /\ UNCHANGED <<status, mpc, loop_rpm, last_sent_speed, link_ser, txq,
                   rx, canvars, parservars, cmd>>

WebNext ==
    \/ MotorLockSpeed
    \/ MotorReadSetpoint
    \/ MotorTxrxBegin
    \/ MotorWriteByte
    \/ MotorRead
    \/ MotorLockStatus
    \/ MotorStatus
    \/ MotorHealth
    \/ MotorException
    \/ MotorReopen
    \/ \E h \in Handlers : ApiRequest(h)
    \/ \E h \in Handlers : HandlerLock(h)
    \/ \E h \in Handlers : HandlerCritical(h)

SpecWeb == WebInit /\ [][WebNext]_vars

\* C11: only motor_loop calls the port; the handlers touch the shared
\* setpoint and status only while they hold the lock that guards them; the
\* bytes on the line are always those of the one frame motor_loop is
\* writing, never mixed with bytes of another writer.
C11_SinglePortOwner ==
    /\ port_users \subseteq {"motor"}
    /\ mpc \in {"s_write", "p_write"} =>
          line \o txq \in {frame_f6_speed(loop_rpm), fa_build_frame(49, <<>>)}
    /\ mpc \notin {"s_write", "p_write"} => line = <<>>
    /\ \A h \in Handlers :
          /\ hpc[h] \in {"sp_cs", "st_cs", "ss_cs"} => speed_lock = h
          /\ hpc[h] = "ss2_cs" => status_lock = h

\* C11 witness: motor_loop is in the middle of a frame while one handler
\* writes the setpoint under speed_lock and another waits for the lock.
C11_Witness ==
    /\ mpc = "s_write"
    /\ line # <<>>
    /\ txq # <<>>
    /\ hpc["h1"] = "st_cs"
    /\ hpc["h2"] = "sp_acq"

(***************************************************************************)
(* The command functions of the three programs called on their own, on any *)
(* arguments, once per behaviour.  cmd records the call, tx the bytes      *)
(* written by it (<<>> when the call raised before ser.write).             *)
(***************************************************************************)
\* frame_f6_speed(rpm_signed) of configuraciónMotores.py
CallFrameF6Speed ==
    /\ cmd = <<>>
    /\ \E num \in RpmNums :
         /\ cmd' = <<"frame_f6_speed", ADDR, num, 1>>
         /\ tx' = frame_f6_speed(num)
    /\ UNCHANGED <<idlevars, st, parservars, webvars>>

\* read_31_pos_counts(link) for each reply that link.txrx can return: the
\* answer for position 0 and for position -2^24 + 5, the latter also one
\* byte short, one byte long, with a changed checksum, with the header of a
\* request, from another address and for another command; and no reply
CallRead31PosCounts ==
    /\ cmd = <<>>
    /\ \E reply \in
            { <<>>,
              <<251, 1, 49, 0, 0, 0, 0, 0, 0, 45>>,
              <<251, 1, 49, 255, 255, 255, 0, 0, 5, 47>>,
              <<251, 1, 49, 255, 255, 255, 0, 0, 5>>,
              <<251, 1, 49, 255, 255, 255, 0, 0, 5, 47, 0>>,
              <<251, 1, 49, 255, 255, 255, 0, 0, 5, 48>>,
              <<250, 1, 49, 255, 255, 255, 0, 0, 5, 46>>,
              <<251, 2, 49, 255, 255, 255, 0, 0, 5, 48>>,
              <<251, 1, 48, 255, 255, 255, 0, 0, 5, 46>> } :
         /\ cmd' = <<"read_31_pos_counts", ADDR, reply, 0>>
         /\ ret' = read_31_pos_counts(reply)
    /\ tx' = fa_build_frame(49, <<>>)
    /\ UNCHANGED <<idlevars, st, wire, buf, frames, ppc, inq, now, webvars>>

\* Mutant: an unknown PID_MODE is taken for vFOC.
pid_codes_default(mode) ==
    IF mode \in {"CLOSE", "close"} THEN 151 ELSE 150

\* pid_codes() for PID_MODE = mode; PID_MODE.upper() is "VFOC" for "vFOC"
\* and "VFOC", "CLOSE" for "CLOSE" and "close"; -1 stands for ValueError
pid_codes(mode) ==
    IF mode \in {"vFOC", "VFOC"} THEN 150
    ELSE IF mode \in {"CLOSE", "close"} THEN 151 ELSE -1

\* Mutant: the gains are sent unclamped.
pid_frame_unclamped(can_id, code, sub, g1, g2) ==
    build_usbcan_frame(can_id,
        <<code, sub, g1 % 256, (g1 \div 256) % 256,
                     g2 % 256, (g2 \div 256) % 256>>)

\* write_kp_ki (sub = 0) and write_kd_kv (sub = 1) from the clamps on: the
\* frame handed to ser.write, <<>> when build_usbcan_frame raises
pid_frame(can_id, code, sub, g1, g2) ==
    LET c1 == clamp(g1, 0, 1024)
        c2 == clamp(g2, 0, 1024)
    IN  build_usbcan_frame(can_id,
            <<code, sub, (c1 % 65536) % 256, ((c1 % 65536) \div 256) % 256,
                         (c2 % 65536) % 256, ((c2 % 65536) \div 256) % 256>>)

\* write_kp_ki(ser, can_id, kp, ki) and write_kd_kv(ser, can_id, kd, kv):
\* pid_codes() raises before anything else; reset_input_buffer() runs
\* before build_usbcan_frame is evaluated for ser.write
CallWritePid ==
    /\ cmd = <<>>
    /\ \E fn \in {"write_kp_ki", "write_kd_kv"},
          mode \in {"vFOC", "CLOSE", "close", "FOC", ""},
          id \in {1, 2047, 2048},
          g1 \in {-5, 0, 255, 256, 1000, 1024, 1025, 70000},
          g2 \in {0, 1000, 1025} :
         /\ cmd' = <<fn, id, g1, g2, mode>>
         /\ IF pid_codes(mode) = -1
            THEN tx' = <<>> /\ UNCHANGED inq
            ELSE /\ inq' = <<>>
                 /\ tx' = pid_frame(id, pid_codes(mode),
                                    IF fn = "write_kp_ki" THEN 0 ELSE 1,
                                    g1, g2)
    /\ UNCHANGED <<idlevars, st, wire, buf, frames, ppc, ret, now, webvars>>

\* build_usbcan_frame(can_id, data) on identifiers on both sides of the
\* 11-bit range and payloads of 0 .. MAX_DLC bytes
CallBuildUsbcanFrame ==
    /\ cmd = <<>>
    /\ \E id \in {-1, 0, 2047, 2048},
          data \in UNION {[1..n -> {85}] : n \in 0..MAX_DLC} :
         /\ cmd' = <<"build_usbcan_frame", id, data, 0>>
         /\ tx' = build_usbcan_frame(id, data)
    /\ UNCHANGED <<idlevars, st, parservars, webvars>>

\* send_enable(ser, can_id, enable)
CallSendEnable ==
    /\ cmd = <<>>
    /\ \E id \in EncIds, enable \in BOOLEAN :
         /\ cmd' = <<"send_enable", id, enable, 0>>
         /\ tx' = send_enable(id, enable)
    /\ UNCHANGED <<idlevars, st, parservars, webvars>>

\* set_work_current(ser, can_id, ma); read_raw empties the input buffer
CallSetWorkCurrent ==
    /\ cmd = <<>>
    /\ \E id \in EncIds, ma \in {-1, 0, 255, 256, 1600, 3000, 3001, 70000} :
         /\ cmd' = <<"set_work_current", id, ma, 0>>
         /\ tx' = set_work_current(id, ma)
    /\ inq' = <<>>
    /\ UNCHANGED <<idlevars, st, wire, buf, frames, ppc, ret, now, webvars>>

\* set_holding_current(ser, can_id, percent): raises before ser.write for
\* a percent that is not one of 10, 20, ..., 90
CallSetHoldingCurrent ==
    /\ cmd = <<>>
    /\ \E id \in EncIds, percent \in {0, 5, 10, 15, 50, 90, 95, 100} :
         /\ cmd' = <<"set_holding_current", id, percent, 0>>
         /\ IF HoldingPercentValid(percent)
            THEN tx' = set_holding_current(id, percent) /\ inq' = <<>>
            ELSE tx' = <<>> /\ UNCHANGED inq
    /\ UNCHANGED <<idlevars, st, wire, buf, frames, ppc, ret, now, webvars>>

\* Replies and noise that reach the port: the answer [0x3A, 1] of motor 1,
\* the same from motor 2, an answer of motor 1 to code 0x31 whose data go
\* on with 3A 00, the answer without status byte, the answer with a wrong
\* checksum, and a lone start marker
PortChunks ==
    { build_usbcan_frame(1, <<58, 1>>),
      build_usbcan_frame(2, <<58, 1>>),
      build_usbcan_frame(1, <<49, 58, 0>>),
      build_usbcan_frame(1, <<58>>),
      [build_usbcan_frame(1, <<58, 1>>) EXCEPT ![7] = 0],
      <<170>> }

\* bytes arrive at the port and wait in its input buffer
PortReceive ==
    /\ \E chunk \in PortChunks :
         /\ Len(inq) + Len(chunk) <= MaxPending
         /\ inq' = inq \o chunk
    /\ UNCHANGED <<canvars, wire, buf, frames, ppc, ret, now, cmd, webvars>>

EncodeNext ==
    \/ CallSendSpeed
    \/ CallFrameF6Speed
    \/ CallRead31PosCounts
    \/ CallWritePid
    \/ CallBuildUsbcanFrame
    \/ CallSendEnable
    \/ CallSetWorkCurrent
    \/ CallSetHoldingCurrent
    \/ PortReceive

SpecEncode == EncodeInit /\ [][EncodeNext]_vars

\* C21: for every signed rpm the velocity encoders (send_speed of both
\* joystick scripts, frame_f6_speed) return a frame of bytes, and the 12-bit
\* magnitude in it is min(|rpm|, 3000), |rpm| truncated to an integer, with
\* the direction bit set exactly for a negative rpm; the value masked to 12
\* bits is the clamped value itself.
C21_SpeedSaturates ==
    cmd # <<>> /\ cmd[1] \in {"canProgram", "CanProgram", "frame_f6_speed"} =>
        LET k     == IF cmd[1] = "frame_f6_speed" THEN 4 ELSE 6
            speed == Min(Abs(cmd[3]) \div cmd[4], 3000)
        IN  /\ tx # <<>>
            /\ \A i \in 1..Len(tx) : tx[i] \in 0..255
            /\ (tx[k] % 16) * 256 + tx[k + 1] = speed
            /\ tx[k] \div 128 = (IF cmd[3] < 0 THEN 1 ELSE 0)
            /\ speed % 4096 = speed

\* C21 witness: frame_f6_speed(-70000) has returned the frame with the
\* direction bit and the magnitude 3000 = 0x0BB8.
C21_Witness ==
    /\ cmd = <<"frame_f6_speed", ADDR, -70000, 1>>
    /\ tx[4] = 128 + 11
    /\ tx[5] = 184

\* C22: a frame for an identifier outside 0 .. 0x7FF, or with more than 7
\* payload bytes, is not encoded: the call fails and nothing is written;
\* with the identifier and the payload in range the frame is always encoded.
C22_OutOfRangeRejected ==
    /\ cmd # <<>> /\ cmd[1] \in {"canProgram", "send_enable", "set_work_current"}
          => (tx = <<>> <=> cmd[2] \notin 0..MAX_CAN_ID)
    /\ cmd # <<>> /\ cmd[1] = "build_usbcan_frame"
          => (tx = <<>> <=> (cmd[2] \notin 0..MAX_CAN_ID
                              \/ Len(cmd[3]) > MAX_DLC - 1))

\* C23: a frame built by configuraciónMotores.py is FA, ADDR, CMD, payload,
\* CHK with CHK the sum of the bytes before it mod 256; read_31_pos_counts
\* returns a position exactly for a reply of 10 bytes FB, ADDR, 31, ...
\* whose last byte is the sum of the nine before it mod 256, else None.
C23_DirectFrameAndReadback ==
    /\ cmd # <<>> /\ cmd[1] \in {"frame_f6_speed", "read_31_pos_counts"} =>
          /\ Len(tx) = (IF cmd[1] = "frame_f6_speed" THEN 7 ELSE 4)
          /\ SubSeq(tx, 1, 3) =
                <<250, ADDR, IF cmd[1] = "frame_f6_speed" THEN 246 ELSE 49>>
          /\ tx[Len(tx)] = SumSeq(SubSeq(tx, 1, Len(tx) - 1)) % 256
    /\ cmd # <<>> /\ cmd[1] = "read_31_pos_counts" =>
          LET reply == cmd[3]
          IN  ret # <<>> <=>
                /\ Len(reply) = 10
                /\ reply[1] = 251
                /\ reply[2] = ADDR
                /\ reply[3] = 49
                /\ reply[10] = SumSeq(SubSeq(reply, 1, 9)) % 256

\* C23 witness: read_31_pos_counts has returned the negative position
\* -2^24 + 5 of a well-formed reply.
C23_Witness ==
    /\ cmd # <<>>
    /\ cmd[1] = "read_31_pos_counts"
    /\ Len(cmd[3]) = 10
    /\ ret = <<-1, 5>>

(***************************************************************************)
(* Waiting for a reply: read_one_reply of PIDconf.py and read_enable_state *)
(* of canProgram.py with its read_raw, one action per pass of the loop.    *)
(* now counts the time since t0 in units of timeout / WaitTicks; every     *)
(* pass of a loop takes one unit, with its time.sleep(0.001) or without.   *)
(***************************************************************************)
\* read_one_reply(ser, expect_id, expect_code, timeout_s):
\* parser = UsbCanParser(); t0 = time.time()
CallReadOneReply ==
    /\ cmd = <<>>
    /\ ppc = "idle"
    /\ \E expect_id \in {1, 3} : cmd' = <<"read_one_reply", expect_id, 58>>
    /\ buf' = <<>>
    /\ now' = 0
    /\ ppc' = "wait"
    /\ UNCHANGED <<canvars, wire, frames, ret, inq, webvars>>

\* read_enable_state(ser, can_id): reset_input_buffer(), the query is
\* written, read_raw starts with t0 = time.time(); buf = bytearray()
CallReadEnableState ==
    /\ cmd = <<>>
    /\ ppc = "idle"
    /\ \E can_id \in {1, 3} :
         /\ cmd' = <<"read_enable_state", can_id, 58>>
         /\ tx' = enable_query(can_id)
    /\ inq' = <<>>
    /\ buf' = <<>>
    /\ now' = 0
    /\ ppc' = "raw"
    /\ UNCHANGED <<idlevars, st, wire, frames, ret, webvars>>

\* one pass of 'while time.time() - t0 < timeout_s' of read_one_reply, or
\* the 'return None' after it; frames keeps the frame next_frame returned
ReadOneReplyIter ==
    /\ ppc = "wait"
    /\ IF now >= WaitTicks
       THEN /\ ret' = <<>>
            /\ ppc' = "done"
            /\ UNCHANGED <<buf, frames, inq, now>>
       ELSE LET r == next_frame(buf \o inq)
            IN  /\ inq' = <<>>
                /\ buf' = r.buf
                /\ IF r.kind # "return"
                   THEN /\ ppc' = "raised"
                        /\ UNCHANGED <<frames, ret, now>>
                   ELSE IF r.fr = <<>>
                   THEN /\ now' = now + 1
                        /\ UNCHANGED <<frames, ret, ppc>>
                   ELSE /\ frames' = <<r.fr>>
                        /\ IF \/ r.fr[1] # cmd[2]
                              \/ Len(r.fr[2]) < 2
                              \/ r.fr[2][1] # cmd[3] % 256
                           THEN /\ now' = now + 1
                                /\ UNCHANGED <<ret, ppc>>
                           ELSE /\ ret' = <<r.fr[2][2]>>
                                /\ ppc' = "done"
                                /\ UNCHANGED now
    /\ UNCHANGED <<canvars, wire, cmd, webvars>>

\* one pass of the loop of read_raw, or its return and the scan of
\* read_enable_state for 0x3A followed by 0 or 1
ReadRawIter ==
    /\ ppc = "raw"
    /\ IF now >= WaitTicks
       THEN /\ st' = read_enable_state(buf)
            /\ ppc' = "done"
            /\ UNCHANGED <<buf, inq, now>>
       ELSE /\ buf' = buf \o inq
            /\ inq' = <<>>
            /\ now' = now + 1
            /\ UNCHANGED <<st, ppc>>
    /\ UNCHANGED <<idlevars, tx, wire, frames, ret, cmd, webvars>>

ReplyNext ==
    \/ CallReadOneReply
    \/ CallReadEnableState
    \/ ReadOneReplyIter
    \/ ReadRawIter
    \/ PortReceive

SpecReply == ParserInit /\ [][ReplyNext]_vars

\* C24: a reply is taken as the answer to a status query only if it comes
\* from the queried motor and carries the query's code: read_one_reply
\* returns the status of a frame with the expected identifier and code,
\* and read_enable_state returns True or False only when the bytes read
\* hold a frame of the queried motor with data 3A 01 or 3A 00.
C24_ReplyMatchesQuery ==
    ppc = "done" =>
        /\ cmd[1] = "read_one_reply" /\ ret # <<>> =>
              /\ frames # <<>>
              /\ frames[1][1] = cmd[2]
              /\ SubSeq(frames[1][2], 1, 2) = <<cmd[3], ret[1]>>
        /\ cmd[1] = "read_enable_state" /\ st # "None" =>
              \E i \in 1..Len(buf) :
                 /\ buf[i] = 170
                 /\ SubSeq(buf, i + 2, i + 5) =
                       <<cmd[2] % 256, cmd[2] \div 256, 58,
                         IF st = "True" THEN 1 ELSE 0>>

\* C25: waiting for a reply is bounded and ends with None when no matching
\* reply came: neither loop makes more passes than fit into the timeout,
\* neither raises, read_one_reply returns None unless the frame it stopped
\* at matched, and read_enable_state returns None when the bytes received
\* during the wait hold no answer 3A 00 / 3A 01 of the queried motor,
\* whatever other frames and noise they hold.
C25_WaitBoundedNone ==
    /\ now <= WaitTicks
    /\ ppc # "raised"
    /\ ppc = "done" /\ cmd[1] = "read_one_reply" =>
          \/ ret = <<>>
          \/ frames # <<>> /\ frames[1][1] = cmd[2]
                /\ SubSeq(frames[1][2], 1, 1) = <<cmd[3]>>
    /\ ppc = "done" /\ cmd[1] = "read_enable_state" =>
          \/ st = "None"
          \/ \E i \in 1..Len(buf), s \in {0, 1} :
                /\ buf[i] = 170
                /\ SubSeq(buf, i + 2, i + 5) =
                      <<cmd[2] % 256, cmd[2] \div 256, 58, s>>

\* C26: a structurally invalid argument is rejected before anything reaches
\* the link: write_kp_ki and write_kd_kv with a PID mode that is neither
\* vFOC nor CLOSE (in any letter case), and set_holding_current with a
\* percent outside 10, 20, ..., 90, write no byte and leave the input
\* buffer of the port as it was.
C26_InvalidArgumentWritesNothing ==
    [][ /\ cmd = <<>>
        /\ cmd' # <<>>
        /\ \/ /\ cmd'[1] \in {"write_kp_ki", "write_kd_kv"}
              /\ cmd'[5] \notin {"vFOC", "VFOC", "CLOSE", "close"}
           \/ /\ cmd'[1] = "set_holding_current"
              /\ cmd'[3] \notin {10, 20, 30, 40, 50, 60, 70, 80, 90}
        => tx' = <<>> /\ tx' = tx /\ inq' = inq ]_vars

\* C26 witness: write_kd_kv was called with PID_MODE = "FOC" while bytes
\* were waiting in the input buffer; nothing was written.
C26_Witness ==
    /\ cmd # <<>>
    /\ cmd[1] = "write_kd_kv"
    /\ cmd[5] = "FOC"
    /\ inq # <<>>
    /\ tx = <<>>

\* C27: every command function clamps its numeric argument and encodes it
\* bit-exactly: working current min(max(ma, 0), 3000) as 83, lo, hi;
\* holding current percent p as 9B, p/10 - 1; Enable as F3 01 or F3 00;
\* each PID gain min(max(g, 0), 1024) as 16 bits, low byte first, after the
\* mode's code (96 for vFOC, 97 for CLOSE) and the sub-code 0 or 1.
C27_ArgumentsClampedAndEncoded ==
    cmd # <<>> =>
        /\ cmd[1] = "set_work_current" =>
              LET ma == IF cmd[3] < 0 THEN 0
                        ELSE IF cmd[3] > 3000 THEN 3000 ELSE cmd[3]
              IN  SubSeq(tx, 5, Len(tx) - 2) = <<131, ma % 256, ma \div 256>>
        /\ cmd[1] = "set_holding_current"
              /\ cmd[3] \in {10, 20, 30, 40, 50, 60, 70, 80, 90} =>
              SubSeq(tx, 5, Len(tx) - 2) = <<155, cmd[3] \div 10 - 1>>
        /\ cmd[1] = "send_enable" =>
              SubSeq(tx, 5, Len(tx) - 2) = <<243, IF cmd[3] THEN 1 ELSE 0>>
        /\ cmd[1] \in {"write_kp_ki", "write_kd_kv"}
              /\ cmd[5] \in {"vFOC", "VFOC", "CLOSE", "close"}
              /\ cmd[2] \in 0..MAX_CAN_ID =>
              LET g1 == IF cmd[3] < 0 THEN 0
                        ELSE IF cmd[3] > 1024 THEN 1024 ELSE cmd[3]
                  g2 == IF cmd[4] < 0 THEN 0
                        ELSE IF cmd[4] > 1024 THEN 1024 ELSE cmd[4]
              IN  SubSeq(tx, 5, Len(tx) - 2) =
                    <<IF cmd[5] \in {"vFOC", "VFOC"} THEN 150 ELSE 151,
                      IF cmd[1] = "write_kp_ki" THEN 0 ELSE 1,
                      g1 % 256, g1 \div 256, g2 % 256, g2 \div 256>>

\* C27 witness: write_kp_ki was called with kp = 70000 and ki = 1025 in
\* mode CLOSE and has sent 97 00 00 04 00 04.
C27_Witness ==
    /\ cmd = <<"write_kp_ki", 1, 70000, 1025, "CLOSE">>
    /\ SubSeq(tx, 5, 10) = <<151, 0, 0, 4, 0, 4>>

(***************************************************************************)
(* motor_loop under fair scheduling: the thread keeps running, a lock that *)
(* is free again and again is acquired, the handlers leave their 'with'    *)
(* blocks, and the start time of a tick falls into a readback window       *)
(* again and again.                                                        *)
(***************************************************************************)
SpecWebFair ==
    /\ SpecWeb
    /\ WF_vars(MotorReadSetpoint \/ MotorTxrxBegin \/ MotorWriteByte
                  \/ MotorRead \/ MotorStatus \/ MotorReopen)
    /\ SF_vars(MotorLockSpeed)
    /\ SF_vars(MotorLockStatus)
    /\ WF_vars(MotorHealth)
    /\ SF_vars(MotorHealth /\ mpc' = "p_begin")
    /\ \A h \in Handlers : WF_vars(HandlerCritical(h))

\* C28: after an exception of the port motor_loop does not exit: it has
\* recorded link_ok = False and the error text when it reopens the port, a
\* failed reopen is recorded as well and the loop starts its next tick, the
\* port is opened again by the next txrx of a later tick (no byte is
\* written or read on a port that is not open), and the loop keeps ticking.
C28_LoopRecovers ==
    /\ [](mpc = "e_open" => ~status.link_ok /\ status.last_error = "e")
    /\ [](mpc \in {"s_write", "s_read", "p_write", "p_read"} => link_ser)
    /\ [][mpc = "e2_status" /\ mpc' # mpc =>
            mpc' = "top" /\ status'.last_error = "e | reopen failed: e2"]_vars
    /\ (mpc = "top" /\ ~link_ser) ~> (mpc \in {"s_begin", "p_begin"})
    /\ []<>(mpc = "top")

\* C28 witness: a reopen has failed and was recorded, and in a later tick
\* txrx has opened the port again and is writing.
C28_Witness ==
    /\ status.last_error = "e | reopen failed: e2"
    /\ ~status.link_ok
    /\ mpc = "s_write"
    /\ link_ser

C30_MixerContract ==
    [][ pc = "cp_send" /\ pc' \in {"cp_send", "cp_loop"}
        => LET forward == cp_axis_y(joy)
               turn    == cp_axis_x(joy)
               left    == clamp(-(forward + turn), -CpAxisDen, CpAxisDen)
               right   == clamp(forward - turn, -CpAxisDen, CpAxisDen)
               out     == IF mi <= Len(MOTOR_LEFT) THEN left ELSE right
               rpm     == out * CP_MAX_RPM
           IN  /\ Abs(left) <= CpAxisDen /\ Abs(right) <= CpAxisDen
               /\ IsSpeedFrame(tx')
               /\ SpeedOf(tx') = Abs(rpm) \div CpAxisDen
               /\ tx'[6] \div 128 = (IF rpm < 0 THEN 1 ELSE 0)
      ]_vars

(***************************************************************************)
(* The velocity sent to one wheel from send to send (src/canProgram.py).   *)
(* The main loop in Enabled, one step per iteration of the while loop; tx  *)
(* keeps the last velocity frame written to the motor                      *)
(* (MOTOR_LEFT \o MOTOR_RIGHT)[mi], mi being fixed in a behaviour, until   *)
(* the next one is written.                                                *)
(***************************************************************************)
\* enable_all has returned (its sleeps are longer than SEND_PERIOD), no
\* velocity frame has been written since the motors were stopped.
RampInit ==
    /\ OthersIdle
    /\ system_state = STATE_ENABLED
    /\ prev_start = 1
    /\ elapsed = SEND_PERIOD_MS
    /\ joy = [JoyRest EXCEPT !.start = 1]
    /\ stale = 0
    /\ pc = "loop"
    /\ caller = "main"
    /\ mi \in 1..NumMotors
    /\ tryN = 1
    /\ rnd = 1
    /\ st = "True"
    /\ tx = <<>>
    /\ ser_open = TRUE
    /\ zeroCnt = NoCount
    /\ falseSent = {}
    /\ wcSent = {}
    /\ hcSent = {}
    /\ sent = 0
    /\ enFailed = FALSE

\* One iteration of the while loop in Enabled without a START edge: pump,
\* prev_start = start, the mixer, the burst if the period has elapsed,
\* last_send = now, time.sleep(0.005)
RampIterate ==
    /\ UNCHANGED othervars
    /\ pc = "loop"
    /\ system_state = STATE_ENABLED
    /\ \E ev \in PumpEvents(joy) :
         /\ ~RisingEdge(ev.j.start, prev_start)
         /\ joy' = ev.j
    /\ prev_start' = joy'.start
    /\ IF elapsed >= SEND_PERIOD_MS
       THEN /\ tx' = IF mi <= Len(MOTOR_LEFT)
                     THEN send_speed(MOTOR_LEFT[mi], left_rpm(joy'), RpmDen)
                     ELSE send_speed(MOTOR_RIGHT[mi - Len(MOTOR_LEFT)],
                                     right_rpm(joy'), RpmDen)
            /\ elapsed' = Advance(0, LOOP_SLEEP_MS)
       ELSE /\ tx' = tx
            /\ elapsed' = Advance(elapsed, LOOP_SLEEP_MS)
    /\ UNCHANGED <<system_state, stale, pc, caller, loopvars, ser_open, ghost>>

\* A START edge or Ctrl-C in Enabled: system_state = STATE_DISABLING and the
\* first round of disable_all, send_speed(ser, m, 0) for every motor
RampStop ==
    /\ UNCHANGED othervars
    /\ pc = "loop"
    /\ system_state = STATE_ENABLED
    /\ system_state' = STATE_DISABLING
    /\ tx' = send_speed((MOTOR_LEFT \o MOTOR_RIGHT)[mi], 0, 1)
    /\ pc' = "dis_speed"
    /\ UNCHANGED <<prev_start, elapsed, joy, stale, caller, loopvars, ser_open,
                   ghost>>

SpecRamp == RampInit /\ [][RampIterate \/ RampStop]_vars

\* C31: the rpm written to a wheel's motor differs from the rpm written to
\* it the time before (zero before the first send) by at most the ramp step
\* max_rate * dt, in driving and in the stop sequence.
C31_RateLimited ==
    [][ LET Rpm(f) == IF f = <<>> THEN 0
                      ELSE IF f[6] \div 128 = 1 THEN -SpeedOf(f)
                      ELSE SpeedOf(f)
        IN  tx' # tx => Abs(Rpm(tx') - Rpm(tx)) <= RampStepRpm
      ]_vars

(***************************************************************************)
(* The START toggle of the main loop (src/canProgram.py).                  *)
(***************************************************************************)
\* C32: the loop toggles only when the sample it pumps has START pressed and
\* the sample before it had START released, and then it does: from Enabled
\* into Disabling, which ends in Disabled, from Disabled into Enabling.  The
\* joystick is not sampled during a sequence (which an I/O error may cut
\* short, ending the script) and prev_start is brought up to
\* the sample when the sequence returns, so that while START stays pressed
\* no further transition happens, however many iterations pass.
C32_HeldToggleOnce ==
    /\ [](pc \in {"loop", "drive", "send"} => prev_start = joy.start)
    /\ [][ pc = "loop" /\ caller' = "main"
           => IF joy.start = 0 /\ joy'.start = 1
              THEN \/ system_state = STATE_ENABLED
                      /\ system_state' = STATE_DISABLING
                   \/ system_state = STATE_DISABLED
                      /\ system_state' = STATE_ENABLING
              ELSE (system_state' = system_state) ]_vars
    /\ [][(pc \in DisPcs \cup EnPcs /\ caller' = "main" /\ pc' # "crashed")
           => (joy' = joy)]_vars
    /\ [][(system_state = STATE_DISABLING /\ system_state' # system_state)
           => (system_state' = STATE_DISABLED)]_vars

\* C32 witness: START is still held several iterations after the Disabling
\* sequence it started has ended; the state is Disabled and the loop runs.
C32_Witness ==
    /\ system_state = STATE_DISABLED
    /\ falseSent = Motors
    /\ joy.start = 1
    /\ prev_start = 1
    /\ pc = "loop"
    /\ caller = "main"
    /\ elapsed >= 2 * LOOP_SLEEP_MS

(***************************************************************************)
(* Length of the frames the deframer returns (src/PIDconf.py).             *)
(***************************************************************************)
\* C33: every frame next_frame has returned has a length field of at most
\* MAX_DLC: its data and the checksum byte are at most MAX_DLC bytes.
C33_ReturnedFrameWithinDlc ==
    \A k \in 1..Len(frames) : Len(frames[k][2]) + 1 <= MAX_DLC

(***************************************************************************)
(* The shared setpoint of src/configuraciónMotores.py.                     *)
(***************************************************************************)
\* C34: the shared setpoint is within [-MAX_SPEED_RPM, MAX_SPEED_RPM] in
\* every state; no /api/speed request with an rpm outside the range gets as
\* far as the lock; the setpoint changes only in the critical section of
\* /api/speed, to the rpm of its request, and of /api/stop, to 0; and the
\* velocity frame motor_loop writes, and the one the status keeps, has a
\* speed of at most MAX_SPEED_RPM.
C34_SetpointWithinRange ==
    /\ [](Abs(desired_speed_rpm) <= MAX_SPEED_RPM)
    /\ [](\A h \in Handlers : Abs(hreq[h]) <= MAX_SPEED_RPM)
    /\ [][ desired_speed_rpm' # desired_speed_rpm
           => \E h \in Handlers :
                /\ hpc'[h] = "idle"
                /\ \/ hpc[h] = "sp_cs" /\ desired_speed_rpm' = hreq[h]
                   \/ hpc[h] = "st_cs" /\ desired_speed_rpm' = 0 ]_vars
    /\ [](mpc = "s_write"
          => LET f == line \o txq
             IN  f[3] = 246 /\ (f[4] % 16) * 256 + f[5] <= MAX_SPEED_RPM)
    /\ [](status.last_tx # <<>>
          => (status.last_tx[4] % 16) * 256 + status.last_tx[5]
                <= MAX_SPEED_RPM)

\* C34 witness: the setpoint is at the lower end of the range, motor_loop
\* is writing the frame for it and the status keeps an earlier frame.
C34_Witness ==
    /\ desired_speed_rpm = -MAX_SPEED_RPM
    /\ mpc = "s_write"
    /\ loop_rpm = -MAX_SPEED_RPM
    /\ (line \o txq)[4] \div 128 = 1
    /\ ((line \o txq)[4] % 16) * 256 + (line \o txq)[5] = MAX_SPEED_RPM
    /\ status.last_tx # <<>>

(***************************************************************************)
(* Send on change in motor_loop (src/configuraciónMotores.py).             *)
(***************************************************************************)
\* C35: in a tick motor_loop goes on to the velocity exchange exactly when
\* the clamped setpoint differs from last_sent_speed, and starts one nowhere
\* else; last_sent_speed changes only after the exchange has run through
\* and the status has been written, to the rpm of that exchange, not when
\* the exchange raises; and if from some point on the setpoint stays at
\* -MAX_SPEED_RPM and no call of the port raises, then from some point on
\* that rpm is the last one sent and no velocity exchange starts any more.
C35_SendOnChange ==
    /\ [][ (mpc = "read" /\ mpc' # mpc)
           => /\ loop_rpm' = clamp(desired_speed_rpm, -MAX_SPEED_RPM,
                                   MAX_SPEED_RPM)
              /\ (mpc' = "s_begin") = (<<loop_rpm'>> # last_sent_speed)
              /\ (mpc' = "health") = (<<loop_rpm'>> = last_sent_speed) ]_vars
    /\ [][ (mpc' = "s_begin" /\ mpc # "s_begin") => (mpc = "read") ]_vars
    /\ [][ (last_sent_speed' # last_sent_speed)
           => /\ mpc = "s_status3"
              /\ last_sent_speed' = <<loop_rpm>>
              /\ status'.last_tx = frame_f6_speed(loop_rpm)
              /\ status'.link_ok ]_vars
    /\ (/\ <>[](desired_speed_rpm = -MAX_SPEED_RPM)
        /\ <>[][mpc' # "e_acq"]_vars)
       => <>[](/\ last_sent_speed = <<-MAX_SPEED_RPM>>
               /\ mpc \notin {"s_begin", "s_write", "s_read"})

\* C35 witness: an exchange has failed (the status says so, the last speed
\* recorded is still the one before) and the same setpoint is being written
\* again in a later tick.
C35_Witness ==
    /\ ~status.link_ok
    /\ status.last_error = "e"
    /\ last_sent_speed = <<0>>
    /\ desired_speed_rpm = -MAX_SPEED_RPM
    /\ loop_rpm = -MAX_SPEED_RPM
    /\ mpc = "s_write"
    /\ line # <<>>

(***************************************************************************)
(* The status /api/status reads (src/configuraciónMotores.py).             *)
(***************************************************************************)
\* C36: while a handler reads the status it holds status_lock and motor_loop
\* is not inside one of its status blocks; what it reads, and what the
\* status holds whenever motor_loop is outside its blocks, has last_error
\* None if link_ok is True; the status changes only in motor_loop's blocks,
\* under the lock; last_tx and last_rx change only in the block that follows
\* an exchange, and when that block releases the lock they are the frame
\* written and the reply read in that exchange, with link_ok True and
\* last_error None.
C36_StatusSnapshotConsistent ==
    /\ [](status_lock = "motor"
          <=> mpc \in {"s_status", "s_status2", "s_status3", "p_status",
                       "e_status", "e_status2", "e2_status"})
    /\ [](\A h \in Handlers :
            hpc[h] = "ss2_cs"
            => /\ status_lock = h
               /\ (status.link_ok => status.last_error = "None"))
    /\ [](status_lock # "motor"
          => (status.link_ok => status.last_error = "None"))
    /\ [][(status' # status) => (status_lock = "motor")]_vars
    /\ [][(\/ status'.last_tx # status.last_tx
           \/ status'.last_rx # status.last_rx)
          => (mpc \in {"s_status", "s_status2"})]_vars
    /\ [][(mpc \in {"s_acq", "s_status", "s_status2"})
          => (rx' = rx /\ loop_rpm' = loop_rpm)]_vars
    /\ [][(mpc = "s_status3" /\ mpc' # mpc)
          => /\ status_lock' = "free"
             /\ status'.last_tx = frame_f6_speed(loop_rpm)
             /\ status'.last_rx = rx
             /\ status'.link_ok
             /\ status'.last_error = "None"]_vars

\* C36 witness: a handler reads the status of an earlier exchange, under the
\* lock, while motor_loop has finished a newer exchange with another reply
\* and waits for the lock to record it.
C36_Witness ==
    /\ hpc["h1"] = "ss2_cs"
    /\ status_lock = "h1"
    /\ status.link_ok
    /\ status.last_tx # <<>>
    /\ status.last_rx # <<>>
    /\ mpc = "s_acq"
    /\ rx = <<>>
    /\ frame_f6_speed(loop_rpm) # status.last_tx

=============================================================================
